---- MODULE Spec2Model ----
(***************************************************************************)
(* Model of the Recipe-Bot prediction / feedback loop: the feedback        *)
(* session table (utils/session_manager.py), the webhook dispatcher and    *)
(* its idempotency cache (handlers/webhook_handler.py) and the receipt     *)
(* image pipeline (handlers/image_handler.py).                             *)
(*                                                                         *)
(* Time.  A datetime is a pair <<s, us>>: whole seconds since midnight of  *)
(* day 0 and microseconds 0..999999, the resolution of Python's datetime.  *)
(* A timedelta is a pair of the same shape whose parts may be negative.    *)
(***************************************************************************)
EXTENDS Integers, Sequences, FiniteSets, TLC

\* ------------------------------------------------------------------ bounds
MaxSessions == 2
MaxClock == 86670
MaxExpiry == 86520
MaxClosed == 1
MaxExtended == 1
MaxReceipts == 1
MaxPredicted == 3
MaxActual == 2
MaxFeedback == 6
MaxUpdates == 2
MaxSummaryUpdates == 4
MaxItems == 4
MaxPromptItems == 3

\* ------------------------------------------------------- program constants
UsPerSecond == 1000000
SecondsPerDay == 86400
SessionHours == 5
GraceMinutes == 2
LookupExtendSeconds == 120
DefaultExtendSeconds == 60
POLL_INTERVAL == 5
MAX_POLL_ATTEMPTS == 60

Users == {"u1", "u2"}
NoSession == 0
NoTime == <<-1, 0>>

\* ------------------------------------------------------------ time algebra
TNorm(s, us) ==
    IF us < 0 THEN <<s - 1, us + UsPerSecond>>
    ELSE IF us >= UsPerSecond THEN <<s + 1, us - UsPerSecond>>
    ELSE <<s, us>>

TAdd(t, d) == TNorm(t[1] + d[1], t[2] + d[2])

TSub(t, d) == TNorm(t[1] - d[1], t[2] - d[2])

TLt(a, b) == a[1] < b[1] \/ (a[1] = b[1] /\ a[2] < b[2])

TLe(a, b) == a = b \/ TLt(a, b)

TMin(a, b) == IF TLt(b, a) THEN b ELSE a

Seconds(n) == <<n, 0>>

Hours(n) == <<n * 3600, 0>>

Minutes(n) == <<n * 60, 0>>

DayOf(t) == t[1] \div SecondsPerDay

\* now.replace(hour=23, minute=59, second=59, microsecond=999999)
EndOfDay(t) == <<DayOf(t) * SecondsPerDay + (SecondsPerDay - 1), UsPerSecond - 1>>

\* ------------------------------------------------------------------- state
VARIABLES
    now,         \* the wall clock read by datetime.now()
    sessions,    \* table feedback_sessions, row i has id i
    predictions, \* table predictions, row i has id i
    receipts,    \* table receipts (rows added since start), row i has id i
    feedback,    \* table prediction_feedback
    cache,       \* _processed_messages_cache: message_id -> timestamp
    dispatched,  \* per message_id, how many times a handler was entered
    inflight,    \* receipt-image handlers waiting for OCR
    chain,       \* the observed run of generate_grocery_prediction
    acc,         \* the observed call of calculate_accuracy
    learning,    \* table learning_updates
    purchases,   \* the receipt items fetched for a prediction
    response,    \* what the last POST to /webhook was answered with
    reminded,    \* per session id, how many reminders were sent for it
    ret          \* the last call: its name, arguments and return value

vars == <<now, sessions, predictions, receipts, feedback, cache, dispatched,
          inflight, chain, acc, learning, purchases, response, reminded, ret>>

\* what the prediction and learning code keeps
aiVars == <<chain, acc, learning, purchases, response, reminded>>

webVars == <<predictions, receipts, feedback, cache, dispatched, inflight, aiVars>>

SessionIds == 1..Len(sessions)

\* --------------------------------------------------------- session manager
\* create_feedback_session: 5 hours from now, or end of day, whichever is earlier
ExpiryNoCap(t) == TAdd(t, Hours(SessionHours))

ExpiresAtFor(t) == TMin(TAdd(t, Hours(SessionHours)), EndOfDay(t))

NewSession(p, u, t) ==
    [id |-> Len(sessions) + 1, prediction_id |-> p, user_phone |-> u,
     session_status |-> "waiting", created_at |-> t,
     expires_at |-> ExpiresAtFor(t), reminder_sent_at |-> NoTime]

\* the rows after create_feedback_session(p, u); the insert may be rejected
CreateRows(ss, p, u, t, ok) == IF ok THEN Append(ss, NewSession(p, u, t)) ELSE ss

\* extend_feedback_session reads expires_at back as text and cuts the
\* fractional seconds off before parsing it ('.' split)
ParseExpires(t) == <<t[1], 0>>

\* the rows after extend_feedback_session(sid, d); the update may be rejected
ExtendRows(ss, sid, d, ok) ==
    IF sid \in 1..Len(ss) /\ ok
    THEN [ss EXCEPT ![sid].expires_at = TAdd(ParseExpires(@), Seconds(d))]
    ELSE ss

\* the record of a call that returns a value: what was called, for which
\* user or message, with which option, and what it returned
Ret(op, u, grace, res) == [op |-> op, user |-> u, grace |-> grace, result |-> res]

NoRet == Ret("none", "", FALSE, 0)

\* no reminder sent for any session
NoReminders == [i \in 1..MaxSessions |-> 0]

\* no POST to /webhook answered yet
Unanswered == [status |-> 0, body |-> "none"]

\* a JSON value that is absent
NoObject == [type |-> "none"]

\* no run of generate_grocery_prediction observed
NoChain ==
    [pc |-> "idle", user |-> "", calls |-> <<>>, metrics |-> <<>>,
     returned |-> NoObject, llm_used |-> "", reply |-> "none"]

\* no call of calculate_accuracy observed
NoAcc == [predicted |-> <<>>, actual |-> <<>>, called |-> FALSE]

\* (variant) the first query without its status filter
ActiveRowsAnyStatus(ss, u, t) ==
    {i \in 1..Len(ss) : ss[i].user_phone = u /\ TLt(t, ss[i].expires_at)}

\* first query of get_active_feedback_session: waiting, not expired
ActiveRows(ss, u, t) ==
    {i \in 1..Len(ss) : /\ ss[i].user_phone = u
                        /\ ss[i].session_status = "waiting"
                        /\ TLt(t, ss[i].expires_at)}

\* second query: waiting, expired within the last 2 minutes
RecentlyExpiredRows(ss, u, t) ==
    {i \in 1..Len(ss) : /\ ss[i].user_phone = u
                        /\ ss[i].session_status = "waiting"
                        /\ TLe(TSub(t, Minutes(GraceMinutes)), ss[i].expires_at)
                        /\ TLt(ss[i].expires_at, t)}

\* .order('created_at', desc=True).limit(1): any row with the latest created_at
LatestCreated(ss, S) ==
    {i \in S : \A j \in S : TLe(ss[j].created_at, ss[i].created_at)}

\* the ids get_active_feedback_session may return (NoSession for None)
LookupResults(ss, u, t, grace) ==
    IF ActiveRows(ss, u, t) # {}
    THEN LatestCreated(ss, ActiveRows(ss, u, t))
    ELSE IF grace /\ RecentlyExpiredRows(ss, u, t) # {}
         THEN LatestCreated(ss, RecentlyExpiredRows(ss, u, t))
         ELSE {NoSession}

\* the rows after get_active_feedback_session returned r
LookupRows(ss, r, ext, ok) ==
    IF r # NoSession /\ ext THEN ExtendRows(ss, r, LookupExtendSeconds, ok) ELSE ss

\* close_feedback_session: status_map.get(reason, 'completed')
Reasons == {"receipt_submitted", "expired", "cancelled", "no_response"}

DefaultReason == "completed"

StatusMap(reason) == IF reason \in Reasons THEN reason ELSE "completed"

\* the rows after close_feedback_session(sid, reason); the update may be rejected
CloseRows(ss, sid, reason, ok) ==
    IF sid \in 1..Len(ss) /\ ok
    THEN [ss EXCEPT ![sid].session_status = StatusMap(reason)]
    ELSE ss

\* ------------------------------------------------------------------- clock
\* The clock moves to an instant at a chosen distance from a stored
\* timestamp: one second after a creation; on an expiry, one microsecond
\* past it, and just past the end of its grace window.
ExpiryOffsets == {<<0, 0>>, <<0, 1>>, <<120, 1>>}

\* the longest OCR that still succeeds: the last poll comes after 59 sleeps
OcrSeconds == (MAX_POLL_ATTEMPTS - 1) * POLL_INTERVAL

TickTargets ==
    {TAdd(sessions[i].created_at, Seconds(1)) : i \in SessionIds}
        \cup {TAdd(sessions[i].expires_at, o) : i \in SessionIds, o \in ExpiryOffsets}
        \cup {TAdd(h.started_at, Seconds(OcrSeconds)) : h \in {x \in inflight : x.result = "ocr"}}

Tick ==
    /\ \E t \in TickTargets :
          /\ TLt(now, t)
          /\ t[1] <= MaxClock
          /\ now' = t
    /\ ret' = NoRet
    /\ UNCHANGED <<sessions, webVars>>

\* ------------------------------------------- the session manager, called directly
ExtendDeltas == {DefaultExtendSeconds, LookupExtendSeconds}

\* the bounds of a run: how many rows may be closed, how many may carry an
\* extended expiry, and how far an expiry may be pushed
Closed(ss) == {i \in 1..Len(ss) : ss[i].session_status # "waiting"}

Extended(ss) == {i \in 1..Len(ss) : ss[i].expires_at # ExpiresAtFor(ss[i].created_at)}

MayClose(sid) == sid \in Closed(sessions) \/ Cardinality(Closed(sessions)) < MaxClosed

MayExtend(sid, d) ==
    /\ sid \in Extended(sessions) \/ Cardinality(Extended(sessions)) < MaxExtended
    /\ sessions[sid].expires_at[1] + d <= MaxExpiry

CloseReasons == {"cancelled", "receipt_submitted", DefaultReason}

ApiCreate(u, ok) ==
    /\ Len(sessions) < MaxSessions
    /\ sessions' = CreateRows(sessions, Len(sessions) + 1, u, now, ok)
    /\ ret' = NoRet
    /\ UNCHANGED <<now, webVars>>

ApiExtend(sid, d, ok) ==
    /\ MayExtend(sid, d)
    /\ sessions' = ExtendRows(sessions, sid, d, ok)
    /\ ret' = NoRet
    /\ UNCHANGED <<now, webVars>>

ApiGetActive(u, ext, grace, ok) ==
    /\ \E r \in LookupResults(sessions, u, now, grace) :
          /\ (r # NoSession /\ ext) => MayExtend(r, LookupExtendSeconds)
          /\ (r = NoSession \/ ~ext) => ok
          /\ sessions' = LookupRows(sessions, r, ext, ok)
          /\ ret' = Ret("lookup", u, grace, r)
    /\ UNCHANGED <<now, webVars>>

ApiClose(sid, reason, ok) ==
    /\ MayClose(sid)
    /\ sessions' = CloseRows(sessions, sid, reason, ok)
    /\ ret' = NoRet
    /\ UNCHANGED <<now, webVars>>

\* ------------------------------------------------------------ initial state
StartTimes == {<<82800, 500000>>}

MessageIds == {"m1", "m2", "m3", "m4", "m5", "m6", "m7"}

Init ==
    /\ now \in StartTimes
    /\ sessions = <<>>
    /\ predictions = <<>>
    /\ receipts = <<>>
    /\ feedback = <<>>
    /\ cache = << >>
    /\ dispatched = [m \in MessageIds |-> 0]
    /\ inflight = {}
    /\ chain = NoChain
    /\ acc = NoAcc
    /\ purchases = <<>>
    /\ response = Unanswered
    /\ reminded = NoReminders
    /\ learning = <<>>
    /\ ret = NoRet

NextApi ==
    \/ Tick
    \/ \E u \in Users, ok \in BOOLEAN : ApiCreate(u, ok)
    \/ \E sid \in SessionIds, d \in ExtendDeltas, ok \in BOOLEAN :
          ApiExtend(sid, d, ok)
    \/ \E u \in Users, ext \in BOOLEAN, grace \in BOOLEAN, ok \in BOOLEAN :
          ApiGetActive(u, ext, grace, ok)
    \/ \E sid \in SessionIds, reason \in CloseReasons, ok \in BOOLEAN :
          ApiClose(sid, reason, ok)

SpecApi == Init /\ [][NextApi]_vars

\* the lookup, over tables built by create, close and the lookup's own extension
NextLookup ==
    \/ Tick
    \/ \E u \in Users, ok \in BOOLEAN : ApiCreate(u, ok)
    \/ \E u \in Users, ext \in BOOLEAN, grace \in BOOLEAN, ok \in BOOLEAN :
          ApiGetActive(u, ext, grace, ok)
    \/ \E sid \in SessionIds, ok \in BOOLEAN : ApiClose(sid, "cancelled", ok)

SpecLookup == Init /\ [][NextLookup]_vars

\* ------------------------------------------------------- message matching
\* A message text is its sequence of words, lower-cased and stripped as in
\* process_incoming_message; a keyword is a sequence of words too.
HasPrefix(t, k) == Len(t) >= Len(k) /\ SubSeq(t, 1, Len(k)) = k

Contains(t, k) ==
    \E i \in 1..(Len(t) + 1) :
        i + Len(k) - 1 <= Len(t) /\ SubSeq(t, i, i + Len(k) - 1) = k

\* is_grocery_command: some keyword occurs in the text
GroceryKeywords ==
    {<<"grocery">>, <<"groceries">>, <<"next", "shop">>, <<"shop", "list">>,
     <<"predict">>, <<"shopping", "list">>, <<"what", "should", "i", "buy">>,
     <<"what", "to", "buy">>}

IsGroceryCommand(t) == \E k \in GroceryKeywords : Contains(t, k)

\* is_no_response: the text is a response, or starts with it and a space
NoResponses ==
    {<<"no">>, <<"nope">>, <<"nah">>, <<"not", "yet">>, <<"haven't">>,
     <<"haven't", "yet">>, <<"not", "shopping">>, <<"not", "going">>,
     <<"didnt", "shop">>, <<"didn't", "shop">>}

IsNoResponse(t) == \E k \in NoResponses : t = k \/ (HasPrefix(t, k) /\ Len(t) > Len(k))

\* is_no_more_receipts: some keyword occurs in the text
NoMoreKeywords ==
    {<<"done">>, <<"no", "more">>, <<"that's", "all">>, <<"that's", "it">>,
     <<"finished">>, <<"all", "done">>, <<"no", "more", "receipts">>,
     <<"no", "other", "receipts">>, <<"don't", "have">>, <<"don't", "have", "any">>,
     <<"none">>, <<"no", "others">>}

IsNoMoreReceipts(t) == \E k \in NoMoreKeywords : Contains(t, k)

\* is_greeting (the text starts with a greeting), is_farewell and is_full_list
\* (a keyword occurs), and the 'not today' test, for the words used here
IsRecipeChat(t) ==
    \/ Contains(t, <<"not", "today">>)
    \/ Contains(t, <<"full", "list">>)
    \/ HasPrefix(t, <<"hello">>) \/ HasPrefix(t, <<"hi">>)
    \/ Contains(t, <<"bye">>)

\* the branch process_incoming_message takes for a text, in the order of its tests
Dispatch(t) ==
    IF IsRecipeChat(t) THEN "recipe"
    ELSE IF IsGroceryCommand(t) THEN "grocery"
    ELSE IF IsNoResponse(t) THEN "no"
    ELSE IF IsNoMoreReceipts(t) THEN "no_more"
    ELSE "unsupported"

\* ------------------------------------------------------ calculate_accuracy
\* An item name is the sequence of its characters.
UpperCase ==
    <<"A", "B", "C", "D", "E", "F", "G", "H", "I", "J", "K", "L", "M",
      "N", "O", "P", "Q", "R", "S", "T", "U", "V", "W", "X", "Y", "Z">>

LowerCase ==
    <<"a", "b", "c", "d", "e", "f", "g", "h", "i", "j", "k", "l", "m",
      "n", "o", "p", "q", "r", "s", "t", "u", "v", "w", "x", "y", "z">>

\* str.lower(), a character at a time
Lower(c) ==
    LET at == {i \in 1..26 : UpperCase[i] = c}
    IN IF at = {} THEN c ELSE LowerCase[CHOOSE i \in at : TRUE]

IsSpace(c) == c \in {" ", "\t", "\n"}

\* str.strip(): without the leading and trailing whitespace
Strip(s) ==
    LET keep == {i \in 1..Len(s) : ~IsSpace(s[i])}
    IN IF keep = {} THEN <<>>
       ELSE SubSeq(s, CHOOSE i \in keep : \A j \in keep : i <= j,
                      CHOOSE i \in keep : \A j \in keep : j <= i)

\* item.lower().strip()
Normalize(s) == Strip([i \in 1..Len(s) |-> Lower(s[i])])

NormalizedSet(items) == {Normalize(items[i]) : i \in 1..Len(items)}

\* (variant) two decimals by cutting off
TruncateHundredths(k, n) == (10000 * k) \div n

\* round(k / n * 100, 2), in hundredths of a percent; a tie goes to the even
\* neighbour as round() does
RoundHundredths(k, n) ==
    LET q == (10000 * k) \div n
        r == (10000 * k) % n
    IN IF 2 * r > n \/ (2 * r = n /\ q % 2 = 1) THEN q + 1 ELSE q

\* (variant) extra items handed back in their normalized form
CalculateAccuracyNormalizedExtra(predicted, actual) ==
    LET predicted_normalized == NormalizedSet(predicted)
        actual_normalized == NormalizedSet(actual)
        matched == SelectSeq(predicted, LAMBDA x : Normalize(x) \in actual_normalized)
        missing == SelectSeq(predicted, LAMBDA x : Normalize(x) \notin actual_normalized)
        extra == SelectSeq(actual, LAMBDA x : Normalize(x) \notin predicted_normalized)
    IN [match_percentage |-> IF Len(predicted) > 0
                             THEN RoundHundredths(Len(matched), Len(predicted))
                             ELSE 0,
        matched_items |-> matched,
        missing_items |-> missing,
        extra_items |-> [i \in 1..Len(extra) |-> Normalize(extra[i])]]

\* calculate_accuracy(predicted, actual)
CalculateAccuracy(predicted, actual) ==
    LET predicted_normalized == NormalizedSet(predicted)
        actual_normalized == NormalizedSet(actual)
        matched == SelectSeq(predicted, LAMBDA x : Normalize(x) \in actual_normalized)
        missing == SelectSeq(predicted, LAMBDA x : Normalize(x) \notin actual_normalized)
        extra == SelectSeq(actual, LAMBDA x : Normalize(x) \notin predicted_normalized)
    IN [match_percentage |-> IF Len(predicted) > 0
                             THEN RoundHundredths(Len(matched), Len(predicted))
                             ELSE 0,
        matched_items |-> matched,
        missing_items |-> missing,
        extra_items |-> extra]

Milk == <<"M", "i", "l", "k">>

Bread == <<"B", "r", "e", "a", "d">>

Eggs == <<"E", "g", "g", "s">>

Cheese == <<"C", "h", "e", "e", "s", "e">>

Rice == <<"R", "i", "c", "e">>

Salt == <<"S", "a", "l", "t">>

\* names a prediction holds
PredictedNames ==
    {Milk, <<" ", "M", "I", "L", "K", " ">>, <<"B", "r", "e", "a", "d">>,
     <<"E", "g", "g", "s">>}

\* names read off receipts
ActualNames ==
    {<<"m", "i", "l", "k">>, <<" ", "M", "I", "L", "K", " ">>,
     <<"B", "r", "e", "a", "d">>, <<"C", "h", "e", "e", "s", "e">>}

ItemLists(names, n) == UNION {[1..k -> names] : k \in 0..n}

\* ---------------------------------------------------------- learning engine
BATCH_LEARNING_THRESHOLD == 5

\* the (predicted, actual) lists process_feedback_for_receipt scores
ScoredLists ==
    {<< <<Milk, Bread>>, <<Cheese>> >>,
     << <<Milk, Bread>>, << <<"m", "i", "l", "k">>, Cheese >> >>,
     << <<Milk, Bread>>, << <<"m", "i", "l", "k">>, Bread >> >>}

AccuracyResults == {CalculateAccuracy(x[1], x[2]) : x \in ScoredLists}

\* the row save_prediction_feedback(p, r, actual_items, a) inserts
FeedbackRow(p, r, a) ==
    [prediction_id |-> p, receipt_id |-> r,
     match_percentage |-> a.match_percentage,
     missing_items |-> a.missing_items,
     extra_items |-> a.extra_items]

\* get_pending_feedbacks_count: every row of prediction_feedback is counted
GetPendingFeedbacksCount(fb) == Len(fb)

\* get_recent_feedbacks(limit): the ids of the newest rows, at most limit
GetRecentFeedbacks(fb, limit) == {i \in 1..Len(fb) : i > Len(fb) - limit}

\* the rows get_recent_feedbacks(limit) returns, newest first
RecentFeedbackRows(fb, limit) ==
    [k \in 1..Cardinality(GetRecentFeedbacks(fb, limit)) |-> fb[Len(fb) + 1 - k]]

RECURSIVE SumSeq(_)
SumSeq(s) == IF s = <<>> THEN 0 ELSE Head(s) + SumSeq(Tail(s))

RECURSIVE Flatten(_)
Flatten(ss) == IF ss = <<>> THEN <<>> ELSE Head(ss) \o Flatten(Tail(ss))

\* round(a / n): the nearest integer, a tie to the even neighbour
RoundDiv(a, n) ==
    LET q == a \div n
        r == a % n
    IN IF 2 * r > n \/ (2 * r = n /\ q % 2 = 1) THEN q + 1 ELSE q

\* how often item occurs in flat
Occurrences(flat, item) == Cardinality({i \in 1..Len(flat) : flat[i] = item})

\* sorted(counts.items(), key=frequency, reverse=True)[:n] for the counts of
\* the items of flat: a dict keeps the order of first insertion and the sort
\* is stable
TopItems(flat, n) ==
    LET items == {flat[i] : i \in 1..Len(flat)}
        count == [a \in items |-> Occurrences(flat, a)]
        first == [a \in items |->
                    CHOOSE i \in 1..Len(flat) :
                       flat[i] = a /\ \A j \in 1..(i - 1) : flat[j] # a]
        rank == [a \in items |->
                   Cardinality({b \in items :
                                   \/ count[b] > count[a]
                                   \/ count[b] = count[a] /\ first[b] < first[a]})]
        m == IF Cardinality(items) < n THEN Cardinality(items) ELSE n
    IN [k \in 1..m |->
          LET it == CHOOSE a \in items : rank[a] = k - 1
          IN [item |-> it, frequency |-> count[it]]]

\* analyze_feedback_patterns(feedbacks); percentages in hundredths
AnalyzeFeedbackPatterns(feedbacks) ==
    LET accuracies ==
            SelectSeq([k \in 1..Len(feedbacks) |-> feedbacks[k].match_percentage],
                      LAMBDA x : x # 0)
        all_missing == Flatten([k \in 1..Len(feedbacks) |-> feedbacks[k].missing_items])
        all_extra == Flatten([k \in 1..Len(feedbacks) |-> feedbacks[k].extra_items])
    IN [feedback_count |-> Len(feedbacks),
        average_accuracy |-> IF accuracies # <<>>
                             THEN RoundDiv(SumSeq(accuracies), Len(accuracies))
                             ELSE 0,
        top_missing_items |-> TopItems(all_missing, 5),
        top_extra_items |-> TopItems(all_extra, 5),
        accuracy_trend |-> IF Len(accuracies) > 1
                              /\ accuracies[1] > accuracies[Len(accuracies)]
                           THEN "improving" ELSE "stable"]

\* the rows of learning_updates after trigger_batch_learning_if_needed at t;
\* learned is FALSE when the analysis or the insert fails.  analysed names
\* the feedback rows the update_summary was computed from.
LearningRows(fb, lu, learned, t) ==
    IF GetPendingFeedbacksCount(fb) < BATCH_LEARNING_THRESHOLD \/ ~learned
    THEN lu
    ELSE Append(lu,
            [feedback_count |-> Len(RecentFeedbackRows(fb, BATCH_LEARNING_THRESHOLD)),
             analysed |-> GetRecentFeedbacks(fb, BATCH_LEARNING_THRESHOLD),
             created_at |-> t,
             update_summary |->
                AnalyzeFeedbackPatterns(RecentFeedbackRows(fb, BATCH_LEARNING_THRESHOLD))])

\* get_aggregated_learning_summary(days_back=60, max_updates=10)
DAYS_BACK == 60

MAX_UPDATES == 10

Days(n) == <<n * SecondsPerDay, 0>>

\* (variant) a window that leaves out the update made exactly at the cutoff
InWindowAfterCutoff(created_at, t) == TLt(TSub(t, Days(DAYS_BACK)), created_at)

\* .gte('created_at', cutoff_date)
InWindow(created_at, t) == TLe(TSub(t, Days(DAYS_BACK)), created_at)

\* the ids of the updates the query returns, newest first: within the
\* window, at most MAX_UPDATES
FetchedUpdates(lu, t) ==
    LET inside == {i \in 1..Len(lu) : InWindow(lu[i].created_at, t)}
        newest == {i \in inside : Cardinality({j \in inside : j > i}) < MAX_UPDATES}
    IN [k \in 1..Cardinality(newest) |->
          CHOOSE i \in newest : Cardinality({j \in newest : j > i}) = k - 1]

\* (variant) one mention is enough
MentionedOnce(n) == n >= 1

\* the signal-strength filter: mentioned by two updates or more
MentionedOften(n) == n >= 2

\* the names of the top five of the items that pass the filter, by summed
\* frequency; lists holds the top lists of the fetched updates, newest first
AggregatedTop(lists) ==
    LET flat == Flatten(lists)
        items == {flat[k].item : k \in 1..Len(flat)}
        summed == [a \in items |->
                     SumSeq([k \in 1..Len(flat) |->
                                IF flat[k].item = a THEN flat[k].frequency ELSE 0])]
        mentions == [a \in items |->
                       Cardinality({u \in 1..Len(lists) :
                                       \E k \in 1..Len(lists[u]) : lists[u][k].item = a})]
        first == [a \in items |->
                    CHOOSE i \in 1..Len(flat) :
                       flat[i].item = a /\ \A j \in 1..(i - 1) : flat[j].item # a]
        kept == {a \in items : MentionedOften(mentions[a])}
        rank == [a \in kept |->
                   Cardinality({b \in kept :
                                   \/ summed[b] > summed[a]
                                   \/ summed[b] = summed[a] /\ first[b] < first[a]})]
        m == IF Cardinality(kept) < 5 THEN Cardinality(kept) ELSE 5
    IN [k \in 1..m |-> CHOOSE a \in kept : rank[a] = k - 1]

\* first half against second half of the accuracies as fetched, with the
\* 2-point thresholds (200 hundredths)
AccuracyTrend(all_accuracies) ==
    IF Len(all_accuracies) < 4 THEN "stable"
    ELSE LET mid_point == Len(all_accuracies) \div 2
             rest == Len(all_accuracies) - mid_point
             first_sum == SumSeq(SubSeq(all_accuracies, 1, mid_point))
             second_sum == SumSeq(SubSeq(all_accuracies, mid_point + 1,
                                         Len(all_accuracies)))
         IN IF second_sum * mid_point > first_sum * rest + 200 * mid_point * rest
            THEN "improving"
            ELSE IF second_sum * mid_point < first_sum * rest - 200 * mid_point * rest
            THEN "declining"
            ELSE "stable"

NoLearning ==
    [has_learning |-> FALSE, top_missing_items |-> <<>>, top_extra_items |-> <<>>,
     average_accuracy |-> 0, accuracy_trend |-> "stable", update_count |-> 0]

\* get_aggregated_learning_summary at t; readOk is FALSE when the query fails
GetAggregatedLearningSummary(lu, t, readOk) ==
    LET fetched == FetchedUpdates(lu, t)
        summaries == [k \in 1..Len(fetched) |-> lu[fetched[k]].update_summary]
        all_accuracies ==
            SelectSeq([k \in 1..Len(summaries) |-> summaries[k].average_accuracy],
                      LAMBDA x : x # 0)
    IN IF ~readOk \/ fetched = <<>> THEN NoLearning
       ELSE [has_learning |-> TRUE,
             top_missing_items |->
                AggregatedTop([k \in 1..Len(summaries) |-> summaries[k].top_missing_items]),
             top_extra_items |->
                AggregatedTop([k \in 1..Len(summaries) |-> summaries[k].top_extra_items]),
             average_accuracy |-> IF all_accuracies # <<>>
                                  THEN RoundDiv(SumSeq(all_accuracies), Len(all_accuracies))
                                  ELSE 0,
             accuracy_trend |-> AccuracyTrend(all_accuracies),
             update_count |-> Len(fetched)]

\* ---------------------------------------------------------------- handlers
\* receipts each user had saved before the run; handle_grocery_request asks
\* for MIN_RECEIPTS_NEEDED of them
MinReceiptsNeeded == 25

PriorReceipts == [u \in Users |-> IF u = "u1" THEN 25 ELSE 24]

ReceiptCount(u) ==
    PriorReceipts[u] + Cardinality({i \in 1..Len(receipts) : receipts[i].user_phone = u})

\* how a run of handle_grocery_request ends
GroceryOutcomes == {"no_prediction", "not_saved", "no_session", "session"}

\* (variant) a session opened for a prediction that was not saved
HandleGroceryRequestSessionAnyway(u, outcome) ==
    /\ Len(predictions) < MaxSessions
    /\ (ReceiptCount(u) < MinReceiptsNeeded) => outcome = "no_prediction"
    /\ predictions' = IF outcome \in {"no_session", "session"}
                      THEN Append(predictions, [user_phone |-> u])
                      ELSE predictions
    /\ sessions' = IF outcome \in {"not_saved", "session"}
                   THEN CreateRows(sessions, Len(predictions) + 1, u, now, TRUE)
                   ELSE sessions

\* handle_grocery_request(u): too few receipts, a failed step or a failed
\* generation leave the tables alone; a generated prediction is saved unless
\* the insert fails, and a saved prediction gets its feedback session unless
\* that insert fails
HandleGroceryRequest(u, outcome) ==
    /\ Len(predictions) < MaxSessions
    /\ (ReceiptCount(u) < MinReceiptsNeeded) => outcome = "no_prediction"
    /\ predictions' = IF outcome \in {"no_session", "session"}
                      THEN Append(predictions, [user_phone |-> u])
                      ELSE predictions
    /\ sessions' = IF outcome = "session"
                   THEN CreateRows(sessions, Len(predictions) + 1, u, now, TRUE)
                   ELSE sessions

\* (variant) a close that lets the rejected update's exception out
CloseRaisesWhenRejected(ok) == ~ok

\* close_feedback_session catches what its update raises, and whatever else
\* goes wrong: nothing reaches the caller, accepted or not
CloseRaises(ok) == FALSE

\* extend_feedback_session does the same
ExtendRaises(ok) == FALSE

\* what handle_no_response sends for the session r it found; an exception
\* in its try block ends it in the except clause, which sends nothing
NoResponseReply(r, raised) ==
    IF r = NoSession THEN "no_problem"
    ELSE IF raised THEN "none" ELSE "cancelled"

\* what handle_no_more_receipts sends; triggered is what
\* trigger_batch_learning_if_needed returned
NoMoreReceiptsReply(r, raised, triggered) ==
    IF r = NoSession THEN "no_problem"
    ELSE IF raised THEN "none"
    ELSE IF triggered THEN "closed_learning" ELSE "closed"

\* handle_no_response(u) once the lookup returned r
NoResponseFlow(u, ok, r) ==
    /\ r = NoSession => ok
    /\ r # NoSession => MayClose(r)
    /\ sessions' = IF r # NoSession THEN CloseRows(sessions, r, "cancelled", ok)
                                    ELSE sessions

\* handle_no_response(u): close the session the lookup finds as 'cancelled'
HandleNoResponse(u, ok) ==
    \E r \in LookupResults(sessions, u, now, TRUE) : NoResponseFlow(u, ok, r)

\* handle_no_more_receipts(u) once the lookup returned r; learned is FALSE
\* when the learning update cannot be saved
NoMoreReceiptsFlow(u, ok, r, learned) ==
    /\ r = NoSession => ok /\ learned
    /\ r # NoSession => MayClose(r)
    /\ sessions' = IF r # NoSession
                   THEN CloseRows(sessions, r, "receipt_submitted", ok)
                   ELSE sessions
    /\ learning' = IF r # NoSession /\ ~CloseRaises(ok)
                   THEN LearningRows(feedback, learning, learned, now)
                   ELSE learning

\* handle_no_more_receipts(u): close the session the lookup finds as
\* 'receipt_submitted', then trigger batch learning
HandleNoMoreReceipts(u, ok) ==
    \E r \in LookupResults(sessions, u, now, TRUE), learned \in BOOLEAN :
       NoMoreReceiptsFlow(u, ok, r, learned)

\* check_and_send_reminders: waiting, created more than 5 hours ago, no
\* reminder yet, not expired
ReminderDue(ss, t) ==
    {i \in 1..Len(ss) : /\ ss[i].session_status = "waiting"
                        /\ TLt(ss[i].created_at, TSub(t, Hours(SessionHours)))
                        /\ ss[i].reminder_sent_at = NoTime
                        /\ TLt(t, ss[i].expires_at)}

\* the sweep run at t: sent holds the due sessions whose
\* send_whatsapp_message did not raise, marked those of them whose
\* reminder_sent_at update was accepted
SweepAt(t, sent, marked) ==
    /\ sessions' = [i \in 1..Len(sessions) |->
                       IF i \in marked
                       THEN [sessions[i] EXCEPT !.reminder_sent_at = t]
                       ELSE sessions[i]]
    /\ reminded' = [i \in DOMAIN reminded |->
                       IF i \in sent THEN reminded[i] + 1 ELSE reminded[i]]

\* one sweep, whenever it runs
ReminderSweep ==
    /\ \E sent \in SUBSET ReminderDue(sessions, now) :
          \E marked \in SUBSET sent : SweepAt(now, sent, marked)
    /\ ret' = NoRet
    /\ UNCHANGED <<now, predictions, receipts, feedback, cache, dispatched, inflight,
                   chain, acc, learning, purchases, response>>

\* ------------------------------------------------------ receipt pipeline
MediaIds == {"img1"}

\* check_receipt_exists(image_url, user_phone)
ReceiptExists(u, media) ==
    \E i \in 1..Len(receipts) :
        receipts[i].user_phone = u /\ receipts[i].image_url = media

\* handle_receipt_image up to the start of OCR: duplicate check, session
\* lookup with extension and grace, download, receipt record.  stored is
\* FALSE when the download or the insert fails.
ImageStart(u, media, extOk, stored) ==
    /\ Len(receipts) < MaxReceipts
    /\ ~ReceiptExists(u, media)
    /\ \E r \in LookupResults(sessions, u, now, TRUE) :
          /\ r = NoSession => extOk
          /\ r # NoSession => MayExtend(r, LookupExtendSeconds)
          /\ sessions' = LookupRows(sessions, r, TRUE, extOk)
          /\ IF stored
             THEN /\ receipts' = Append(receipts,
                        [user_phone |-> u, image_url |-> media,
                         extraction_status |-> "pending"])
                  /\ inflight' = inflight \cup
                        {[receipt_id |-> Len(receipts) + 1, phone_number |-> u,
                          active_session |-> IF ExtendRaises(extOk) THEN NoSession ELSE r,
                          found_unexpired |-> r \in ActiveRows(sessions, u, now),
                          started_at |-> now, result |-> "ocr"]}
             ELSE UNCHANGED <<receipts, inflight>>
          /\ ret' = Ret("image", u, extOk,
                        [session |-> r,
                         reply |-> IF stored THEN "received" ELSE "try_again"])
    /\ UNCHANGED <<now, predictions, feedback, cache, dispatched, aiVars>>

\* how the rest of handle_receipt_image ends
ImageOutcomes == {"ocr_failed", "no_items", "saved"}

\* the extraction_status written for an outcome
StatusFor(outcome) == IF outcome = "saved" THEN "success" ELSE "failed"

\* handle_receipt_image from the end of OCR: OCR succeeds only within its
\* polling bound; once items are saved the session is looked up again (grace,
\* no extension) and, if one is found, process_feedback_for_receipt scores the
\* receipt against its prediction (fbOk: the feedback row was saved)
ImageFinish(h, outcome, fbOk) ==
    /\ h \in inflight /\ h.result = "ocr"
    /\ outcome # "ocr_failed" => TLe(now, TAdd(h.started_at, Seconds(OcrSeconds)))
    /\ receipts' = [receipts EXCEPT ![h.receipt_id].extraction_status = StatusFor(outcome)]
    /\ \E r \in LookupResults(sessions, h.phone_number, now, TRUE), a \in AccuracyResults :
          /\ (outcome # "saved" \/ r = NoSession) => fbOk
          /\ feedback' = IF outcome = "saved" /\ r # NoSession /\ fbOk
                         THEN Append(feedback,
                                 FeedbackRow(sessions[r].prediction_id, h.receipt_id, a))
                         ELSE feedback
          /\ inflight' = (inflight \ {h}) \cup
                {[h EXCEPT !.result =
                     IF outcome # "saved" THEN outcome
                     ELSE IF r = NoSession THEN "saved_no_session"
                     ELSE IF fbOk THEN "feedback" ELSE "feedback_failed"]}
    /\ ret' = NoRet
    /\ UNCHANGED <<now, sessions, predictions, cache, dispatched, aiVars>>

\* the handlers called directly
GroceryRequest(u, outcome) ==
    /\ HandleGroceryRequest(u, outcome)
    /\ ret' = NoRet
    /\ UNCHANGED <<now, receipts, feedback, cache, dispatched, inflight, aiVars>>

NoResponse(u, ok) ==
    /\ \E r \in LookupResults(sessions, u, now, TRUE) :
          /\ NoResponseFlow(u, ok, r)
          /\ ret' = Ret("no", u, ok,
                        [session |-> r,
                         reply |-> NoResponseReply(r, CloseRaises(ok))])
    /\ UNCHANGED <<now, predictions, receipts, feedback, cache, dispatched, inflight, aiVars>>

NoMoreReceipts(u, ok) ==
    /\ \E r \in LookupResults(sessions, u, now, TRUE), learned \in BOOLEAN :
          /\ NoMoreReceiptsFlow(u, ok, r, learned)
          /\ ret' = Ret("no_more", u, ok,
                        [session |-> r,
                         reply |-> NoMoreReceiptsReply(r, CloseRaises(ok),
                                                       learning' # learning)])
    /\ UNCHANGED <<now, predictions, receipts, feedback, cache, dispatched, inflight,
                   chain, acc, purchases, response, reminded>>

\* ------------------------------------------------------ webhook dispatcher
\* the inbound events of a run; WhatsApp may deliver each any number of times
Inbound ==
    {[id |-> "m1", from |-> "u1", type |-> "text", text |-> <<"grocery">>],
     [id |-> "m2", from |-> "u1", type |-> "text", text |-> <<"predict">>],
     [id |-> "m3", from |-> "u1", type |-> "text", text |-> <<"no">>],
     [id |-> "m4", from |-> "u1", type |-> "text", text |-> <<"done">>],
     [id |-> "m5", from |-> "u1", type |-> "image", text |-> <<>>],
     [id |-> "m6", from |-> "u2", type |-> "sticker", text |-> <<>>]}

Cached == DOMAIN cache

\* _is_message_processed
IsMessageProcessed(id) == id \in Cached

\* (variant) a cleanup that also drops the entries exactly 24 hours old
CleanupFromOneDay(c, t) ==
    [id \in {x \in DOMAIN c : TLt(t, TAdd(c[x], Hours(24)))} |-> c[id]]

\* _cleanup_old_messages: drop the entries older than 24 hours
CleanupOldMessages(c, t) ==
    [id \in {x \in DOMAIN c : ~TLt(TAdd(c[x], Hours(24)), t)} |-> c[id]]

\* _mark_message_processed: store now, clean up when the size is a multiple of 100
MarkMessageProcessed(c, id, t) ==
    LET marked == [x \in DOMAIN c \cup {id} |-> IF x = id THEN t ELSE c[x]]
    IN IF Cardinality(DOMAIN marked) % 100 = 0 THEN CleanupOldMessages(marked, t)
                                               ELSE marked

\* process_incoming_message for one delivery of m.  The call
\* handle_receipt_image(sender_phone, message, message_id) passes three
\* arguments to a function of two: it raises TypeError before the handler
\* runs, the except clause returns False, and the id is never marked.
\* ret.grace tells that the delivery was recognised as a duplicate, and
\* ret.result is 1 when the call returns True, 0 when it returns False.
ProcessIncomingMessage(m, outcome, ok) ==
    /\ IF IsMessageProcessed(m.id)
       THEN /\ outcome = "no_prediction" /\ ok
            /\ ret' = Ret("process", m.id, TRUE, 0)
            /\ UNCHANGED <<sessions, predictions, cache, dispatched, learning>>
       ELSE IF m.type # "text"
       THEN /\ outcome = "no_prediction" /\ ok
            /\ ret' = Ret("process", m.id, FALSE, 0)
            /\ UNCHANGED <<sessions, predictions, cache, dispatched, learning>>
       ELSE /\ cache' = MarkMessageProcessed(cache, m.id, now)
            /\ dispatched' = [dispatched EXCEPT ![m.id] = @ + 1]
            /\ ret' = Ret("process", m.id, FALSE, 1)
            /\ CASE Dispatch(m.text) = "grocery" ->
                      /\ ok
                      /\ HandleGroceryRequest(m.from, outcome)
                      /\ UNCHANGED learning
                 [] Dispatch(m.text) = "no" ->
                      /\ outcome = "no_prediction"
                      /\ HandleNoResponse(m.from, ok)
                      /\ UNCHANGED <<predictions, learning>>
                 [] Dispatch(m.text) = "no_more" ->
                      /\ outcome = "no_prediction"
                      /\ HandleNoMoreReceipts(m.from, ok)
                      /\ UNCHANGED predictions
                 [] OTHER ->
                      /\ outcome = "no_prediction" /\ ok
                      /\ UNCHANGED <<sessions, predictions, learning>>
    /\ UNCHANGED <<now, receipts, feedback, inflight, chain, acc, purchases, reminded>>

\* what reaches handle_webhook: a body that is no JSON (get_json gives
\* None), a try block that raises (get_json rejects the body, or an
\* exception gets out of process_incoming_message), or an event
Posts == {"no_json", "raises", "event"}

\* (variant) a handler that lets the failure through to the transport
WebhookResponsePropagating(post) ==
    [status |-> IF post = "raises" THEN 500 ELSE 200,
     body |-> IF post = "event" THEN "ok" ELSE "error"]

\* the response handle_webhook returns
WebhookResponse(post) ==
    [status |-> 200, body |-> IF post = "event" THEN "ok" ELSE "error"]

\* handle_webhook for one POST; an event is handed to process_incoming_message
HandleWebhook(post, m, outcome, ok) ==
    /\ IF post = "event"
       THEN ProcessIncomingMessage(m, outcome, ok)
       ELSE /\ outcome = "no_prediction" /\ ok
            /\ ret' = NoRet
            /\ UNCHANGED <<now, sessions, predictions, receipts, feedback, cache,
                           dispatched, inflight, chain, acc, learning, purchases,
                           reminded>>
    /\ response' = WebhookResponse(post)

Next ==
    \/ Tick
    \/ \E m \in Inbound, outcome \in GroceryOutcomes, ok \in BOOLEAN :
          ProcessIncomingMessage(m, outcome, ok) /\ UNCHANGED response
    \/ ReminderSweep

Spec == Init /\ [][Next]_vars

\* time passes and the scheduler runs the sweep again and again
FairSpec == Spec /\ WF_vars(Tick) /\ WF_vars(ReminderSweep)

\* the same run, every delivery seen from the POST handler
NextWebhook ==
    \/ Tick
    \/ \E post \in Posts, m \in Inbound, outcome \in GroceryOutcomes, ok \in BOOLEAN :
          HandleWebhook(post, m, outcome, ok)
    \/ ReminderSweep

SpecWebhook == Init /\ [][NextWebhook]_vars

\* the replies the bot asks for once feedback is recorded ("reply 'done' or
\* 'no more'"), after a grocery request that opens the session
ClosingInbound ==
    {[id |-> "m1", from |-> "u1", type |-> "text", text |-> <<"grocery">>],
     [id |-> "m4", from |-> "u1", type |-> "text", text |-> <<"done">>],
     [id |-> "m7", from |-> "u1", type |-> "text", text |-> <<"no", "more">>]}

NextClosing ==
    \/ Tick
    \/ \E m \in ClosingInbound, outcome \in GroceryOutcomes, ok \in BOOLEAN :
          ProcessIncomingMessage(m, outcome, ok) /\ UNCHANGED response

SpecClosing == Init /\ [][NextClosing]_vars

\* ------------------------------------- the reminder job on its schedule
\* IntervalTrigger(minutes=30)
SWEEP_MINUTES == 30

\* the scheduler's next run after t; the runs fall on the half hours
NextSweepTime(t) ==
    <<((t[1] \div (60 * SWEEP_MINUTES)) + 1) * (60 * SWEEP_MINUTES), 0>>

\* 18:29:00
ReminderStartTimes == {<<66540, 0>>}

InitReminders ==
    /\ now \in ReminderStartTimes
    /\ sessions = <<>>
    /\ predictions = <<>>
    /\ receipts = <<>>
    /\ feedback = <<>>
    /\ cache = << >>
    /\ dispatched = [m \in MessageIds |-> 0]
    /\ inflight = {}
    /\ chain = NoChain
    /\ acc = NoAcc
    /\ purchases = <<>>
    /\ response = Unanswered
    /\ reminded = NoReminders
    /\ learning = <<>>
    /\ ret = NoRet

\* the scheduler runs check_and_send_reminders at its next instant
ScheduledSweep ==
    /\ NextSweepTime(now)[1] <= MaxClock
    /\ now' = NextSweepTime(now)
    /\ \E sent \in SUBSET ReminderDue(sessions, NextSweepTime(now)) :
          \E marked \in SUBSET sent : SweepAt(NextSweepTime(now), sent, marked)
    /\ ret' = Ret("sweep", "", FALSE, 0)
    /\ UNCHANGED <<predictions, receipts, feedback, cache, dispatched, inflight,
                   chain, acc, learning, purchases, response>>

\* sessions are created and extended between the runs of the job
NextReminders ==
    \/ ScheduledSweep
    \/ \E u \in Users, ok \in BOOLEAN : ApiCreate(u, ok)
    \/ \E sid \in SessionIds, ok \in BOOLEAN : ApiExtend(sid, LookupExtendSeconds, ok)

SpecReminders == InitReminders /\ [][NextReminders]_vars

\* ----------------------------------------- the handlers, late in the evening
HandlerStartTimes == {<<86370, 500000>>}

InitHandlers ==
    /\ now \in HandlerStartTimes
    /\ sessions = <<>>
    /\ predictions = <<>>
    /\ receipts = <<>>
    /\ feedback = <<>>
    /\ cache = << >>
    /\ dispatched = [m \in MessageIds |-> 0]
    /\ inflight = {}
    /\ chain = NoChain
    /\ acc = NoAcc
    /\ purchases = <<>>
    /\ response = Unanswered
    /\ reminded = NoReminders
    /\ learning = <<>>
    /\ ret = NoRet

NextHandlers ==
    \/ Tick
    \/ \E u \in Users, outcome \in GroceryOutcomes : GroceryRequest(u, outcome)
    \/ \E u \in Users, ok \in BOOLEAN : NoResponse(u, ok)
    \/ \E u \in Users, media \in MediaIds, extOk \in BOOLEAN, stored \in BOOLEAN :
          ImageStart(u, media, extOk, stored)
    \/ \E h \in inflight, outcome \in ImageOutcomes, fbOk \in BOOLEAN :
          ImageFinish(h, outcome, fbOk)

SpecHandlers == InitHandlers /\ [][NextHandlers]_vars

\* ------------------------------- one user's replies and receipt, late evening
\* the user who has enough receipts asks for one prediction, then answers
\* 'no' or 'done' or sends a receipt
ReplyUser == "u1"

NextReplies ==
    \/ Tick
    \/ predictions = <<>> /\ GroceryRequest(ReplyUser, "session")
    \/ \E ok \in BOOLEAN : NoResponse(ReplyUser, ok)
    \/ \E ok \in BOOLEAN : NoMoreReceipts(ReplyUser, ok)
    \/ \E media \in MediaIds, extOk \in BOOLEAN, stored \in BOOLEAN :
          ImageStart(ReplyUser, media, extOk, stored)
    \/ \E h \in inflight, outcome \in ImageOutcomes, fbOk \in BOOLEAN :
          ImageFinish(h, outcome, fbOk)

SpecReplies == InitHandlers /\ [][NextReplies]_vars

\* ------------------------------ deliveries of one receipt image, overlapping
\* WhatsApp delivers an image event again until it is answered; every
\* delivery runs handle_receipt_image in a request thread of its own
MaxDeliveries == 2

Deliveries == 1..MaxDeliveries

\* handle_receipt_image, the duplicate check: check_receipt_exists returns
\* the id of a row with this image, and None when there is none or when its
\* query fails (answered = FALSE); a duplicate ends the handler
ImageCheck(d, u, media, answered) ==
    /\ \A h \in inflight : h.delivery # d
    /\ ~ReceiptExists(u, media) => answered
    /\ inflight' = inflight \cup
          {[delivery |-> d, media |-> media, receipt_id |-> 0, phone_number |-> u,
            active_session |-> NoSession, found_unexpired |-> FALSE,
            started_at |-> now,
            result |-> IF answered /\ ReceiptExists(u, media) THEN "duplicate"
                                                              ELSE "checked"]}
    /\ ret' = NoRet
    /\ UNCHANGED <<now, sessions, predictions, receipts, feedback, cache, dispatched,
                   aiVars>>

\* handle_receipt_image from the session lookup to the start of OCR: lookup
\* with extension and grace, download, create_receipt_record
ImageStore(h, extOk, stored) ==
    /\ h \in inflight /\ h.result = "checked"
    /\ \E r \in LookupResults(sessions, h.phone_number, now, TRUE) :
          /\ r = NoSession => extOk
          /\ r # NoSession => MayExtend(r, LookupExtendSeconds)
          /\ sessions' = LookupRows(sessions, r, TRUE, extOk)
          /\ receipts' = IF stored
                         THEN Append(receipts,
                                 [user_phone |-> h.phone_number, image_url |-> h.media,
                                  extraction_status |-> "pending"])
                         ELSE receipts
          /\ inflight' = (inflight \ {h}) \cup
                {IF stored
                 THEN [h EXCEPT !.receipt_id = Len(receipts) + 1,
                                !.active_session = IF ExtendRaises(extOk) THEN NoSession ELSE r,
                                !.found_unexpired = r \in ActiveRows(sessions, h.phone_number, now),
                                !.started_at = now,
                                !.result = "ocr"]
                 ELSE [h EXCEPT !.result = "try_again"]}
    /\ ret' = NoRet
    /\ UNCHANGED <<now, predictions, feedback, cache, dispatched, aiVars>>

NextDeliveries ==
    \/ Tick
    \/ predictions = <<>> /\ GroceryRequest(ReplyUser, "session")
    \/ \E d \in Deliveries, media \in MediaIds, answered \in BOOLEAN :
          ImageCheck(d, ReplyUser, media, answered)
    \/ \E h \in inflight, extOk \in BOOLEAN, stored \in BOOLEAN :
          ImageStore(h, extOk, stored)
    \/ \E h \in inflight, outcome \in ImageOutcomes, fbOk \in BOOLEAN :
          ImageFinish(h, outcome, fbOk)

SpecDeliveries == InitHandlers /\ [][NextDeliveries]_vars

\* ---------------------------------- text replies handled by request threads
\* The web server handles every POST in a thread of its own, and
\* process_incoming_message takes no lock: between two of its store or
\* cache accesses another thread may run.  A thread's record tells how far
\* it has come.
MaxThreads == 2

Threads == 1..MaxThreads

\* the replies the threads handle: 'no' and 'done' from the user of the session
ThreadMessages == {m \in Inbound : m.id \in {"m3", "m4"}}

\* process_incoming_message, the idempotency check
ThreadCheck(t, m) ==
    /\ \A h \in inflight : h.thread # t
    /\ inflight' = inflight \cup
          {[thread |-> t, message |-> m, active_session |-> NoSession,
            started_at |-> now,
            result |-> IF IsMessageProcessed(m.id) THEN "duplicate" ELSE "passed"]}
    /\ ret' = Ret("process", m.id, IsMessageProcessed(m.id), 0)
    /\ UNCHANGED <<now, sessions, predictions, receipts, feedback, cache, dispatched,
                   aiVars>>

\* process_incoming_message, _mark_message_processed and the choice of the handler
ThreadMark(h) ==
    /\ h \in inflight /\ h.result = "passed"
    /\ cache' = MarkMessageProcessed(cache, h.message.id, now)
    /\ dispatched' = [dispatched EXCEPT ![h.message.id] = @ + 1]
    /\ inflight' = (inflight \ {h}) \cup {[h EXCEPT !.result = "marked"]}
    /\ ret' = NoRet
    /\ UNCHANGED <<now, sessions, predictions, receipts, feedback, aiVars>>

\* handle_no_response and handle_no_more_receipts, the session lookup
ThreadLookup(h) ==
    /\ h \in inflight /\ h.result = "marked"
    /\ Dispatch(h.message.text) \in {"no", "no_more"}
    /\ \E r \in LookupResults(sessions, h.message.from, now, TRUE) :
          inflight' = (inflight \ {h}) \cup
                         {[h EXCEPT !.result = "found", !.active_session = r]}
    /\ ret' = NoRet
    /\ UNCHANGED <<now, sessions, predictions, receipts, feedback, cache, dispatched,
                   aiVars>>

\* handle_no_response and handle_no_more_receipts, from the close on
ThreadClose(h, ok, learned) ==
    /\ h \in inflight /\ h.result = "found"
    /\ IF Dispatch(h.message.text) = "no"
       THEN /\ learned
            /\ NoResponseFlow(h.message.from, ok, h.active_session)
            /\ UNCHANGED learning
       ELSE NoMoreReceiptsFlow(h.message.from, ok, h.active_session, learned)
    /\ inflight' = (inflight \ {h}) \cup {[h EXCEPT !.result = "done"]}
    /\ ret' = Ret("process", h.message.id, FALSE, 1)
    /\ UNCHANGED <<now, predictions, receipts, feedback, cache, dispatched,
                   chain, acc, purchases, response, reminded>>

NextThreads ==
    \/ Tick
    \/ predictions = <<>> /\ GroceryRequest(ReplyUser, "session")
    \/ \E t \in Threads, m \in ThreadMessages : ThreadCheck(t, m)
    \/ \E h \in inflight : ThreadMark(h)
    \/ \E h \in inflight : ThreadLookup(h)
    \/ \E h \in inflight, ok \in BOOLEAN, learned \in BOOLEAN : ThreadClose(h, ok, learned)

SpecThreads == InitHandlers /\ [][NextThreads]_vars

\* --------------------------------- create_feedback_session at chosen times
CreateTimes ==
    {<<36000, 0>>, <<68399, 999999>>, <<68400, 0>>, <<79200, 0>>, <<86399, 999999>>}

InitCreate ==
    /\ now \in CreateTimes
    /\ sessions = <<>>
    /\ predictions = <<>>
    /\ receipts = <<>>
    /\ feedback = <<>>
    /\ cache = << >>
    /\ dispatched = [m \in MessageIds |-> 0]
    /\ inflight = {}
    /\ chain = NoChain
    /\ acc = NoAcc
    /\ purchases = <<>>
    /\ response = Unanswered
    /\ reminded = NoReminders
    /\ learning = <<>>
    /\ ret = NoRet

NextCreate ==
    \/ Tick
    \/ \E u \in Users, ok \in BOOLEAN : ApiCreate(u, ok)

SpecCreate == InitCreate /\ [][NextCreate]_vars

\* ------------------------------------------------------- prediction chain
\* JSON values as parse_ai_response returns them.  The text of a string is
\* the sequence of numbers it spells: <<y, m, d>> for "yyyy-mm-dd",
\* <<y, m, d, h, mi>> for "yyyy-mm-ddThh:mi", << >> for any other wording.
JStr(text) == [type |-> "string", text |-> text]

JList(elems) == [type |-> "list", elems |-> elems]

JNum == [type |-> "number"]

JObj(fields) == [type |-> "object", fields |-> fields]

IsLeap(y) == (y % 4 = 0 /\ y % 100 # 0) \/ y % 400 = 0

DaysIn(y, m) ==
    IF m = 2 THEN (IF IsLeap(y) THEN 29 ELSE 28)
    ELSE IF m \in {4, 6, 9, 11} THEN 30 ELSE 31

\* datetime.fromisoformat(v) returns (TRUE) or raises ValueError / TypeError
FromIsoFormat(v) ==
    /\ v.type = "string"
    /\ Len(v.text) \in {3, 5}
    /\ v.text[1] \in 1..9999
    /\ v.text[2] \in 1..12
    /\ v.text[3] \in 1..DaysIn(v.text[1], v.text[2])
    /\ Len(v.text) = 5 => (v.text[4] \in 0..23 /\ v.text[5] \in 0..59)

RequiredFields ==
    {"predicted_date_range_start", "predicted_date_range_end", "predicted_items"}

\* (variant) a validation that does not look at the dates
ValidateWithoutDates(o) ==
    IF o.type # "object" THEN "raises"
    ELSE IF ~(RequiredFields \subseteq DOMAIN o.fields) THEN "invalid"
    ELSE IF o.fields["predicted_items"].type # "list"
            \/ Len(o.fields["predicted_items"].elems) = 0 THEN "invalid"
    ELSE "valid"

\* _validate_prediction(o): "valid" for True, "invalid" for False, "raises"
\* when the membership test on a value that is no container raises TypeError
ValidatePrediction(o) ==
    IF o.type # "object" THEN "raises"
    ELSE IF ~(RequiredFields \subseteq DOMAIN o.fields) THEN "invalid"
    ELSE IF o.fields["predicted_items"].type # "list"
            \/ Len(o.fields["predicted_items"].elems) = 0 THEN "invalid"
    ELSE IF ~(/\ FromIsoFormat(o.fields["predicted_date_range_start"])
              /\ FromIsoFormat(o.fields["predicted_date_range_end"])) THEN "invalid"
    ELSE "valid"

\* the truth value Python gives a parsed value in 'if prediction and ...'
Truthy(o) ==
    \/ o.type = "number"
    \/ o.type = "object" /\ DOMAIN o.fields # {}

\* (variant) mistral consulted before gemini
ProvidersMistralFirst == <<"mistral", "gemini", "deepseek", "openai">>

\* generate_grocery_prediction: the providers, in the order of its blocks
Providers == <<"gemini", "mistral", "deepseek", "openai">>

\* What one provider call meets: no API key; a network error; a status
\* other than 200 (plainly, with a body that holds a listed context-limit
\* substring, or 413 / 400 with context wording only); a 200 whose text is
\* not JSON; a 200 whose text parses to object.
ResponseKinds ==
    {"unconfigured", "network_error", "http_error", "limit_text", "limit_status",
     "unparsable", "parsed"}

Response(kind, o) == [kind |-> kind, object |-> o]

GoodDate == JStr(<<2024, 11, 20>>)

GoodItems == JList(<<"Milk", "Bread">>)

ValidObject ==
    JObj([f \in RequiredFields |->
            IF f = "predicted_items" THEN GoodItems ELSE GoodDate])

\* the parsed values the chain meets
ChainObjects ==
    {ValidObject,
     JNum,
     JObj([f \in RequiredFields |->
             IF f = "predicted_items" THEN JList(<<>>) ELSE GoodDate])}

Responses ==
    {Response(k, NoObject) : k \in ResponseKinds \ {"parsed"}}
        \cup {Response("parsed", o) : o \in ChainObjects}

MetricRow(p, hit) == [llm_used |-> p, context_limit_hit |-> hit]

\* The prompt_metrics rows call_<p>_api inserts: none when the key is
\* missing (it raises first); one before the request; one more in the
\* non-200 branch when is_context_limit_error(response.text, status) holds;
\* and one more in the except branch when is_context_limit_error(str(e))
\* holds, which it does again when the body itself holds a listed substring.
MetricsFor(p, kind) ==
    IF kind = "unconfigured" THEN <<>>
    ELSE IF kind = "limit_text"
         THEN <<MetricRow(p, FALSE), MetricRow(p, TRUE), MetricRow(p, TRUE)>>
    ELSE IF kind = "limit_status"
         THEN <<MetricRow(p, FALSE), MetricRow(p, TRUE)>>
    ELSE <<MetricRow(p, FALSE)>>

\* how one block of generate_grocery_prediction ends: "valid" (return the
\* prediction), "failed" (go on to the next block) or "raises" (the
\* exception leaves the blocks for the function's except clause)
AttemptResult(r) ==
    IF r.kind = "unconfigured" THEN "raises"
    ELSE IF r.kind # "parsed" THEN "failed"
    ELSE IF ~Truthy(r.object) THEN "failed"
    ELSE IF ValidatePrediction(r.object) = "valid" THEN "valid"
    ELSE IF ValidatePrediction(r.object) = "raises" THEN "raises"
    ELSE "failed"

\* handle_grocery_request up to the call of generate_grocery_prediction;
\* ready is FALSE when fetching receipts, items, patterns or the prompt fails
GenerationStart(u, ready) ==
    /\ chain.pc # "calling" /\ chain.pc # "returned"
    /\ Len(predictions) < MaxSessions
    /\ chain' = [NoChain EXCEPT
                   !.user = u,
                   !.pc = IF ReceiptCount(u) >= MinReceiptsNeeded /\ ready
                          THEN "calling" ELSE "done",
                   !.reply = IF ReceiptCount(u) < MinReceiptsNeeded THEN "need_receipts"
                             ELSE IF ~ready THEN "try_later" ELSE "analyzing"]
    /\ ret' = NoRet
    /\ UNCHANGED <<now, sessions, predictions, receipts, feedback, cache, dispatched,
                   inflight, acc, learning, purchases, response, reminded>>

\* one block of generate_grocery_prediction: the call of the next provider
ProviderAttempt(r) ==
    /\ chain.pc = "calling"
    /\ LET i == Len(chain.calls) + 1
           p == Providers[i]
           res == AttemptResult(r)
       IN chain' = [chain EXCEPT
                      !.calls = Append(@, [provider |-> p, response |-> r]),
                      !.metrics = @ \o MetricsFor(p, r.kind),
                      !.pc = IF res = "failed" /\ i < Len(Providers)
                             THEN "calling" ELSE "returned",
                      !.returned = IF res = "valid" THEN r.object ELSE NoObject,
                      !.llm_used = IF res = "valid" THEN p ELSE ""]
    /\ ret' = NoRet
    /\ UNCHANGED <<now, sessions, predictions, receipts, feedback, cache, dispatched,
                   inflight, acc, learning, purchases, response, reminded>>

\* (variant) a handler that saves whatever the generation returned
GroceryOutcomeUnchecked(returned, saved, sessOk) ==
    IF ~saved THEN "not_saved"
    ELSE IF ~sessOk THEN "no_session" ELSE "session"

\* the outcome of handle_grocery_request for what the generation returned
GroceryOutcome(returned, saved, sessOk) ==
    IF returned = NoObject THEN "no_prediction"
    ELSE IF ~saved THEN "not_saved"
    ELSE IF ~sessOk THEN "no_session" ELSE "session"

\* handle_grocery_request from the return of generate_grocery_prediction
GenerationFinish(saved, sessOk) ==
    /\ chain.pc = "returned"
    /\ chain.returned = NoObject => (saved /\ sessOk)
    /\ HandleGroceryRequest(chain.user, GroceryOutcome(chain.returned, saved, sessOk))
    /\ chain' = [chain EXCEPT
                   !.pc = "done",
                   !.reply = IF GroceryOutcome(chain.returned, saved, sessOk) = "no_prediction"
                             THEN "try_again" ELSE "shopping_list"]
    /\ ret' = NoRet
    /\ UNCHANGED <<now, receipts, feedback, cache, dispatched, inflight, acc, learning, purchases, response, reminded>>

NextChain ==
    \/ \E u \in Users, ready \in BOOLEAN : GenerationStart(u, ready)
    \/ \E r \in Responses : ProviderAttempt(r)
    \/ \E saved \in BOOLEAN, sessOk \in BOOLEAN : GenerationFinish(saved, sessOk)

SpecChain == Init /\ [][NextChain]_vars

\* ---------------------------------------- validation of the last provider
\* the date values a response may carry: good dates, 29 February in and out
\* of a leap year, a 13th month, a date with a time, free wording, a number
DateValues ==
    {GoodDate, JStr(<<2024, 2, 29>>), JStr(<<2023, 2, 29>>), JStr(<<2024, 13, 1>>),
     JStr(<<2024, 11, 27, 10, 30>>), JStr(<<>>), JNum}

ItemValues == {GoodItems, JList(<<>>), JStr(<<>>)}

\* objects with all three fields, and good objects with some fields left out
ValidateObjects ==
    {JObj([f \in RequiredFields |->
             IF f = "predicted_items" THEN it
             ELSE IF f = "predicted_date_range_start" THEN d1 ELSE d2]) :
        it \in ItemValues, d1 \in DateValues, d2 \in DateValues}
    \cup {JObj([f \in F |-> ValidObject.fields[f]]) : F \in SUBSET RequiredFields}
    \cup {JNum}

\* gemini, mistral and deepseek have failed; openai is about to be called
InitValidate ==
    /\ now \in StartTimes
    /\ sessions = <<>>
    /\ predictions = <<>>
    /\ receipts = <<>>
    /\ feedback = <<>>
    /\ cache = << >>
    /\ dispatched = [m \in MessageIds |-> 0]
    /\ inflight = {}
    /\ chain = [NoChain EXCEPT
                  !.pc = "calling", !.user = "u1", !.reply = "analyzing",
                  !.calls = [i \in 1..3 |->
                               [provider |-> Providers[i],
                                response |-> Response("network_error", NoObject)]],
                  !.metrics = [i \in 1..3 |-> MetricRow(Providers[i], FALSE)]]
    /\ acc = NoAcc
    /\ purchases = <<>>
    /\ response = Unanswered
    /\ reminded = NoReminders
    /\ learning = <<>>
    /\ ret = NoRet

NextValidate ==
    \/ \E o \in ValidateObjects : ProviderAttempt(Response("parsed", o))
    \/ \E saved \in BOOLEAN, sessOk \in BOOLEAN : GenerationFinish(saved, sessOk)

SpecValidate == InitValidate /\ [][NextValidate]_vars

\* ------------------------------------- calculate_accuracy on chosen lists
\* a call of calculate_accuracy is about to be made
InitAccuracy ==
    /\ now \in StartTimes
    /\ sessions = <<>>
    /\ predictions = <<>>
    /\ receipts = <<>>
    /\ feedback = <<>>
    /\ cache = << >>
    /\ dispatched = [m \in MessageIds |-> 0]
    /\ inflight = {}
    /\ chain = NoChain
    /\ \E P \in ItemLists(PredictedNames, MaxPredicted), A \in ItemLists(ActualNames, MaxActual) :
          acc = [predicted |-> P, actual |-> A, called |-> FALSE]
    /\ learning = <<>>
    /\ purchases = <<>>
    /\ response = Unanswered
    /\ reminded = NoReminders
    /\ ret = NoRet

\* the call returns
AccuracyCall ==
    /\ ~acc.called
    /\ acc' = [predicted |-> acc.predicted, actual |-> acc.actual, called |-> TRUE,
               result |-> CalculateAccuracy(acc.predicted, acc.actual)]
    /\ ret' = NoRet
    /\ UNCHANGED <<now, sessions, predictions, receipts, feedback, cache, dispatched,
                   inflight, chain, learning, purchases, response, reminded>>

NextAccuracy == AccuracyCall

SpecAccuracy == InitAccuracy /\ [][NextAccuracy]_vars

\* ------------------------------------------- the learning tables on their own
PredictionIds == {1, 2}

\* save_prediction_feedback(p, r, actual_items, a) for a receipt r scored for
\* the first time; saved is FALSE when the insert fails
SavePredictionFeedback(p, a, saved) ==
    /\ Len(feedback) < MaxFeedback
    /\ feedback' = IF saved
                   THEN Append(feedback, FeedbackRow(p, Len(feedback) + 1, a))
                   ELSE feedback
    /\ ret' = Ret("save_feedback", "", FALSE, IF saved THEN Len(feedback) + 1 ELSE 0)
    /\ UNCHANGED <<now, sessions, predictions, receipts, cache, dispatched, inflight,
                   chain, acc, learning, purchases, response, reminded>>

\* trigger_batch_learning_if_needed(); the result is 1 for True
TriggerBatchLearning(learned) ==
    /\ Len(learning) < MaxUpdates
    /\ learning' = LearningRows(feedback, learning, learned, now)
    /\ ret' = Ret("trigger", "", FALSE, IF learning' # learning THEN 1 ELSE 0)
    /\ UNCHANGED <<now, sessions, predictions, receipts, feedback, cache, dispatched,
                   inflight, chain, acc, purchases, response, reminded>>

NextLearning ==
    \/ \E p \in PredictionIds, a \in AccuracyResults, saved \in BOOLEAN :
          SavePredictionFeedback(p, a, saved)
    \/ \E learned \in BOOLEAN : TriggerBatchLearning(learned)

SpecLearning == Init /\ [][NextLearning]_vars

\* ------------------------------------------------------- purchase patterns
\* A purchase date is <<y, m, d>>, the numbers "yyyy-mm-dd" spells; an item
\* row without one carries NoDate.
NoDate == << >>

\* an average that was not computed (None)
NoAverage == << >>

\* date.toordinal(): the days from 0001-01-01, which is day 1
ToOrdinal(d) ==
    LET y == d[1] - 1
    IN y * 365 + (y \div 4) - (y \div 100) + (y \div 400)
       + SumSeq([m \in 1..(d[2] - 1) |-> DaysIn(d[1], m)]) + d[3]

\* the order of the strings "yyyy-mm-dd"
DateBefore(a, b) ==
    \/ a[1] < b[1]
    \/ a[1] = b[1] /\ a[2] < b[2]
    \/ a[1] = b[1] /\ a[2] = b[2] /\ a[3] < b[3]

\* sorted(set(purchase_dates), reverse=True)
SortedDatesDesc(D) ==
    [k \in 1..Cardinality(D) |->
        CHOOSE d \in D : Cardinality({e \in D : DateBefore(d, e)}) = k - 1]

\* (variant) the average cut off after its first decimal
AverageTenthsCutOff(unique_dates) ==
    IF Len(unique_dates) > 1
    THEN LET days_between == [i \in 1..(Len(unique_dates) - 1) |->
                                ToOrdinal(unique_dates[i]) - ToOrdinal(unique_dates[i + 1])]
         IN IF SumSeq(days_between) = 0 THEN NoAverage
            ELSE <<(10 * SumSeq(days_between)) \div Len(days_between)>>
    ELSE NoAverage

\* round(avg_days, 1) if avg_days else None, in tenths of a day
AverageTenths(unique_dates) ==
    IF Len(unique_dates) > 1
    THEN LET days_between == [i \in 1..(Len(unique_dates) - 1) |->
                                ToOrdinal(unique_dates[i]) - ToOrdinal(unique_dates[i + 1])]
         IN IF SumSeq(days_between) = 0 THEN NoAverage
            ELSE <<RoundDiv(10 * SumSeq(days_between), Len(days_between))>>
    ELSE NoAverage

\* the rows aggregate_purchase_patterns groups: a name and a date
Grouped(items) ==
    {i \in 1..Len(items) :
        Strip(items[i].item_name_normalized) # <<>> /\ items[i].purchase_date # NoDate}

\* aggregate_purchase_patterns(items): item name -> pattern
AggregatePurchasePatterns(items) ==
    LET names == {Strip(items[i].item_name_normalized) : i \in Grouped(items)}
    IN [n \in names |->
          LET unique_dates ==
                 SortedDatesDesc({items[i].purchase_date :
                                     i \in {j \in Grouped(items) :
                                               Strip(items[j].item_name_normalized) = n}})
          IN [frequency |-> Len(unique_dates),
              last_purchase_date |-> unique_dates[1],
              avg_days_between |-> AverageTenths(unique_dates),
              purchase_dates |-> unique_dates]]

\* the names in the order item_groups holds them: by first grouped row
GroupOrder(items, n) ==
    CHOOSE i \in Grouped(items) :
       /\ Strip(items[i].item_name_normalized) = n
       /\ \A j \in Grouped(items) : Strip(items[j].item_name_normalized) = n => i <= j

PurchaseNames == {Milk, Bread}

PurchaseDates == {<<2024, 1, 1>>, <<2024, 1, 8>>, <<2024, 1, 15>>, <<2024, 1, 21>>}

ItemRows ==
    [item_name_normalized : PurchaseNames, purchase_date : PurchaseDates \cup {NoDate}]

\* receipt items were fetched for a prediction
InitPatterns ==
    /\ now \in StartTimes
    /\ sessions = <<>>
    /\ predictions = <<>>
    /\ receipts = <<>>
    /\ feedback = <<>>
    /\ cache = << >>
    /\ dispatched = [m \in MessageIds |-> 0]
    /\ inflight = {}
    /\ chain = NoChain
    /\ acc = NoAcc
    /\ learning = <<>>
    /\ purchases \in UNION {[1..k -> ItemRows] : k \in 0..MaxItems}
    /\ response = Unanswered
    /\ reminded = NoReminders
    /\ ret = NoRet

\* a call of aggregate_purchase_patterns on the fetched items
PatternsCall ==
    /\ ret.op = "none"
    /\ ret' = Ret("patterns", "", FALSE, AggregatePurchasePatterns(purchases))
    /\ UNCHANGED <<now, sessions, webVars>>

NextPatterns == PatternsCall

SpecPatterns == InitPatterns /\ [][NextPatterns]_vars

\* --------------------------------------- the learning summary on chosen tables
\* what five receipts in a row were scored as
BatchScores ==
    {[match_percentage |-> 8000, missing_items |-> <<Milk, Bread, Eggs, Cheese, Rice>>,
      extra_items |-> <<Salt>>],
     [match_percentage |-> 6000, missing_items |-> <<Salt>>, extra_items |-> <<Salt, Rice>>],
     [match_percentage |-> 7900, missing_items |-> <<Salt>>, extra_items |-> <<Cheese>>],
     [match_percentage |-> 0, missing_items |-> <<Milk>>, extra_items |-> <<Cheese>>]}

\* the update_summary the trigger writes for five rows scored as b
BatchSummary ==
    [b \in BatchScores |->
        AnalyzeFeedbackPatterns([i \in 1..BATCH_LEARNING_THRESHOLD |-> FeedbackRow(1, i, b)])]

\* the day of the summary; its cutoff is day 10
SummaryNow == Days(70)

\* when update k was made, the first old updates of the table being from
\* before the window: one update a day, the first recent one at the cutoff
UpdatedAt(k, old) == IF k <= old THEN Days(k) ELSE Days(k + 9)

\* the table holds n updates, each made by the trigger right after five
\* receipts scored alike
InitSummary ==
    /\ now = SummaryNow
    /\ sessions = <<>>
    /\ predictions = <<>>
    /\ receipts = <<>>
    /\ cache = << >>
    /\ dispatched = [m \in MessageIds |-> 0]
    /\ inflight = {}
    /\ chain = NoChain
    /\ acc = NoAcc
    /\ purchases = <<>>
    /\ response = Unanswered
    /\ reminded = NoReminders
    /\ \E n \in 0..MaxSummaryUpdates : \E x \in [1..n -> BatchScores], old \in 0..n :
          /\ feedback = [i \in 1..(BATCH_LEARNING_THRESHOLD * n) |->
                            FeedbackRow(1, i, x[((i - 1) \div BATCH_LEARNING_THRESHOLD) + 1])]
          /\ learning = [k \in 1..n |->
                [feedback_count |-> BATCH_LEARNING_THRESHOLD,
                 analysed |-> ((k - 1) * BATCH_LEARNING_THRESHOLD + 1)
                                 ..(k * BATCH_LEARNING_THRESHOLD),
                 created_at |-> UpdatedAt(k, old),
                 update_summary |-> BatchSummary[x[k]]]]
    /\ ret = NoRet

\* a call of get_aggregated_learning_summary
LearningSummary(readOk) ==
    /\ ret' = Ret("summary", "", FALSE,
                  [read_ok |-> readOk,
                   summary |-> GetAggregatedLearningSummary(learning, now, readOk)])
    /\ UNCHANGED <<now, sessions, webVars>>

NextSummary == \E readOk \in BOOLEAN : LearningSummary(readOk)

SpecSummary == InitSummary /\ [][NextSummary]_vars

\* ------------------------------------------------------------- the prompt
\* the date of day 0 of the clock
ClockEpoch == <<2024, 1, 1>>

\* date.today(), as an ordinal
Today(t) == ToOrdinal(ClockEpoch) + DayOf(t)

\* (variant) a hint given only once the whole average has passed
LikelyAfterAverage(days_since, avg_days) ==
    avg_days # NoAverage /\ 10 * days_since >= avg_days[1]

\* days_since >= avg_days * 0.8, avg_days in tenths
LikelyNeedsSoon(days_since, avg_days) ==
    avg_days # NoAverage /\ 100 * days_since >= 8 * avg_days[1]

\* the lines of the prompt for one item
HistoryEntry(n, pattern, today) ==
    [item_name |-> n,
     frequency |-> pattern.frequency,
     last_date |-> pattern.last_purchase_date,
     days_since |-> today - ToOrdinal(pattern.last_purchase_date),
     avg_days |-> pattern.avg_days_between,
     likely_needs_soon |->
        LikelyNeedsSoon(today - ToOrdinal(pattern.last_purchase_date),
                        pattern.avg_days_between)]

\* sorted(patterns.items(), key=(frequency, last_purchase_date), reverse=True)[:30]
SortedItems(items, patterns) ==
    LET names == DOMAIN patterns
        Above(a, b) ==
           \/ patterns[a].frequency > patterns[b].frequency
           \/ /\ patterns[a].frequency = patterns[b].frequency
              /\ DateBefore(patterns[b].last_purchase_date, patterns[a].last_purchase_date)
           \/ /\ patterns[a].frequency = patterns[b].frequency
              /\ patterns[a].last_purchase_date = patterns[b].last_purchase_date
              /\ GroupOrder(items, a) < GroupOrder(items, b)
        rank == [a \in names |-> Cardinality({b \in names : Above(b, a)})]
        m == IF Cardinality(names) < 30 THEN Cardinality(names) ELSE 30
    IN [k \in 1..m |-> CHOOSE a \in names : rank[a] = k - 1]

\* (variant) a heading put out whatever the summary says
HeadingOnly == [present |-> TRUE]

NoInsights == [present |-> FALSE]

\* the learning-insights block for a summary
Insights(summary) ==
    [present |-> TRUE,
     missing_items |-> summary.top_missing_items,
     extra_items |-> summary.top_extra_items,
     accuracy_line |-> IF summary.average_accuracy > 0
                       THEN <<summary.average_accuracy, summary.accuracy_trend>>
                       ELSE <<>>]

\* how the lookup of the learning summary goes: it returns what the table
\* gives, its read fails (the no-learning result), or the call raises
Lookups == {"ok", "read_fails", "raises"}

\* format_data_for_llm(patterns, date.today(), user_phone), by its sections
FormatDataForLlm(items, patterns, t, lu, lookup) ==
    LET sorted_items == SortedItems(items, patterns)
        learning_summary == GetAggregatedLearningSummary(lu, t, lookup = "ok")
    IN [today |-> Today(t),
        purchase_history |->
           [k \in 1..Len(sorted_items) |->
               HistoryEntry(sorted_items[k], patterns[sorted_items[k]], Today(t))],
        insights |-> IF lookup # "raises" /\ learning_summary.has_learning
                     THEN Insights(learning_summary)
                     ELSE NoInsights,
        instructions |-> TRUE]

PromptRows == [item_name_normalized : PurchaseNames, purchase_date : PurchaseDates]

\* 2024-01-20 and 2024-01-21, in the evening
PromptTimes == {TAdd(Days(19), t) : t \in StartTimes} \cup {TAdd(Days(20), t) : t \in StartTimes}

\* five receipts scored alike
PromptBatch == CHOOSE b \in BatchScores : b.match_percentage = 8000

\* receipt items were fetched for a prediction; the learning table is empty
\* or holds the update made on day 0 from five receipts
InitPrompt ==
    /\ now \in PromptTimes
    /\ sessions = <<>>
    /\ predictions = <<>>
    /\ receipts = <<>>
    /\ cache = << >>
    /\ dispatched = [m \in MessageIds |-> 0]
    /\ inflight = {}
    /\ chain = NoChain
    /\ acc = NoAcc
    /\ \E n \in 0..1 :
          /\ feedback = [i \in 1..(BATCH_LEARNING_THRESHOLD * n) |->
                            FeedbackRow(1, i, PromptBatch)]
          /\ learning = [k \in 1..n |->
                [feedback_count |-> BATCH_LEARNING_THRESHOLD,
                 analysed |-> 1..BATCH_LEARNING_THRESHOLD,
                 created_at |-> Days(0),
                 update_summary |-> BatchSummary[PromptBatch]]]
    /\ purchases \in UNION {[1..k -> PromptRows] : k \in 0..MaxPromptItems}
    /\ response = Unanswered
    /\ reminded = NoReminders
    /\ ret = NoRet

\* format_data_for_llm on the patterns aggregated from the fetched items
BuildPrompt(lookup) ==
    /\ ret.op = "none"
    /\ ret' = Ret("prompt", lookup, FALSE,
                  FormatDataForLlm(purchases, AggregatePurchasePatterns(purchases),
                                   now, learning, lookup))
    /\ UNCHANGED <<now, sessions, webVars>>

NextPrompt == \E lookup \in Lookups : BuildPrompt(lookup)

SpecPrompt == InitPrompt /\ [][NextPrompt]_vars

\* ---------------------------------- a prompt for one user, feedback of another
\* the prompt is built for InsightsUser from that user's purchases; the only
\* prediction, and all feedback and learning there is, belong to OtherUser
InsightsUser == "u1"

OtherUser == "u2"

InitInsights ==
    /\ now \in PromptTimes
    /\ sessions = <<>>
    /\ predictions = <<[user_phone |-> OtherUser]>>
    /\ receipts = <<>>
    /\ cache = << >>
    /\ dispatched = [m \in MessageIds |-> 0]
    /\ inflight = {}
    /\ chain = NoChain
    /\ acc = NoAcc
    /\ \E n \in 0..1 :
          /\ feedback = [i \in 1..(BATCH_LEARNING_THRESHOLD * n) |->
                            FeedbackRow(1, i, PromptBatch)]
          /\ learning = [k \in 1..n |->
                [feedback_count |-> BATCH_LEARNING_THRESHOLD,
                 analysed |-> 1..BATCH_LEARNING_THRESHOLD,
                 created_at |-> Days(0),
                 update_summary |-> BatchSummary[PromptBatch]]]
    /\ purchases \in UNION {[1..k -> PromptRows] : k \in 0..MaxPromptItems}
    /\ response = Unanswered
    /\ reminded = NoReminders
    /\ ret = NoRet

\* format_data_for_llm(patterns, date.today(), user_phone=u): user_phone is
\* passed on to get_aggregated_learning_summary, which does not use it
BuildPromptFor(u, lookup) ==
    /\ ret.op = "none"
    /\ ret' = Ret("prompt_for", u, lookup = "ok",
                  FormatDataForLlm(purchases, AggregatePurchasePatterns(purchases),
                                   now, learning, lookup))
    /\ UNCHANGED <<now, sessions, webVars>>

NextInsights == \E lookup \in Lookups : BuildPromptFor(InsightsUser, lookup)

SpecInsights == InitInsights /\ [][NextInsights]_vars

\* ------------------------------------------- the idempotency cache on its own
\* instants around the 24-hour boundary of an entry stored at 0 s or at 1 us
CacheTimes ==
    {<<0, 0>>, <<0, 1>>, <<3600, 0>>, <<86400, 0>>, <<86400, 1>>, <<90000, 0>>}

CacheIds == {"m1", "m2", "m3"}

\* datetime.now() moves on
CacheTick ==
    /\ \E t \in CacheTimes : TLt(now, t) /\ now' = t
    /\ ret' = NoRet
    /\ UNCHANGED <<sessions, webVars>>

\* _mark_message_processed(id)
CacheMark(id) ==
    /\ cache' = MarkMessageProcessed(cache, id, now)
    /\ ret' = NoRet
    /\ UNCHANGED <<now, sessions, predictions, receipts, feedback, dispatched, inflight, aiVars>>

\* _cleanup_old_messages(); the result is the number of ids it reports cleaned
CleanupPass ==
    /\ cache' = CleanupOldMessages(cache, now)
    /\ ret' = Ret("cleanup", "", FALSE,
                  Cardinality(DOMAIN cache \ DOMAIN CleanupOldMessages(cache, now)))
    /\ UNCHANGED <<now, sessions, predictions, receipts, feedback, dispatched, inflight, aiVars>>

InitCache ==
    /\ now = <<0, 0>>
    /\ sessions = <<>>
    /\ predictions = <<>>
    /\ receipts = <<>>
    /\ feedback = <<>>
    /\ cache = << >>
    /\ dispatched = [m \in MessageIds |-> 0]
    /\ inflight = {}
    /\ chain = NoChain
    /\ acc = NoAcc
    /\ purchases = <<>>
    /\ response = Unanswered
    /\ reminded = NoReminders
    /\ learning = <<>>
    /\ ret = NoRet

NextCache ==
    \/ CacheTick
    \/ \E id \in CacheIds : CacheMark(id)
    \/ CleanupPass

SpecCache == InitCache /\ [][NextCache]_vars

\* ===================================================================== claims

\* C1: in every reachable state each user has at most one feedback session in
\* status 'waiting'.
C1_OneWaitingPerUser ==
    \A u \in Users :
       Cardinality({i \in SessionIds : /\ sessions[i].user_phone = u
                                       /\ sessions[i].session_status = "waiting"}) <= 1

\* no 'no' and no 'done' reply has reached its handler
C2_NoReply ==
    \A m \in Inbound :
       (m.type = "text" /\ Dispatch(m.text) \in {"no", "no_more"}) => dispatched[m.id] = 0

\* C2: a waiting session whose expires_at has passed, with no receipt and no
\* reply from the user, eventually moves to 'expired' or 'no_response'.
C2_EventuallyTerminal ==
    \A i \in 1..MaxSessions :
       (i \in SessionIds /\ sessions[i].session_status = "waiting"
          /\ TLt(sessions[i].expires_at, now) /\ C2_NoReply)
       ~> \/ i \in SessionIds /\ sessions[i].session_status \in {"expired", "no_response"}
          \/ ~C2_NoReply

\* C3: a row inserted by create_feedback_session is 'waiting' and expires at
\* the earlier of creation + 5 hours and 23:59:59.999999 of the creation day:
\* never more than 5 hours after creation, never on a later calendar day.
C3_CreateExpiry ==
    [][\A i \in 1..Len(sessions') :
          i > Len(sessions) =>
            LET s == sessions'[i]
                fiveHours == <<now[1] + 5 * 3600, now[2]>>
                lastInstant == <<(now[1] \div 86400) * 86400 + 86399, 999999>>
            IN /\ s.session_status = "waiting"
               /\ s.created_at = now
               /\ s.expires_at \in {fiveHours, lastInstant}
               /\ TLe(s.expires_at, fiveHours)
               /\ TLe(s.expires_at, lastInstant)
               /\ s.expires_at[1] \div 86400 = s.created_at[1] \div 86400]_vars

\* a session created at 22:00:00 that expires at the end of that day, and a
\* session created in the morning that expires 5 hours later
C3_Witness ==
    /\ \E i \in SessionIds : /\ sessions[i].created_at = <<79200, 0>>
                             /\ sessions[i].expires_at = <<86399, 999999>>

C3_WitnessFiveHours ==
    \E i \in SessionIds : /\ sessions[i].created_at = <<36000, 0>>
                          /\ sessions[i].expires_at = <<54000, 0>>

\* C4: an extension adds exactly the requested seconds to the stored
\* expires_at of one session and changes no status and no other session.
C4_ExtendExact ==
    [][Len(sessions') = Len(sessions) =>
         \A i \in SessionIds :
            sessions'[i].expires_at # sessions[i].expires_at =>
              /\ \E d \in ExtendDeltas :
                    sessions'[i].expires_at = TAdd(sessions[i].expires_at, Seconds(d))
              /\ sessions'[i].session_status = sessions[i].session_status
              /\ \A j \in SessionIds \ {i} : sessions'[j] = sessions[j]]_vars

\* C5: the expires_at of a session in a terminal status never changes.
C5_ExtendOnlyWaiting ==
    [][Len(sessions') = Len(sessions) =>
         \A i \in SessionIds :
            sessions[i].session_status \in Reasons =>
               sessions'[i].expires_at = sessions[i].expires_at]_vars

\* the waiting, unexpired sessions of user u, read off the table
C6_Candidates(u) ==
    {i \in SessionIds : /\ sessions[i].user_phone = u
                        /\ sessions[i].session_status = "waiting"
                        /\ \/ sessions[i].expires_at[1] > now[1]
                           \/ /\ sessions[i].expires_at[1] = now[1]
                              /\ sessions[i].expires_at[2] > now[2]}

C7_GraceIncludesNow ==
    (ret.op = "lookup" /\ ret.grace /\ ret.result = NoSession) =>
       ~ \E i \in SessionIds :
            /\ sessions[i].user_phone = ret.user
            /\ sessions[i].session_status = "waiting"
            /\ TLe(TSub(now, Minutes(2)), sessions[i].expires_at)
            /\ TLe(sessions[i].expires_at, now)

\* C8: whenever a close changes a session's status, the new status is one of
\* receipt_submitted, cancelled, expired, no_response.
C8_CloseTerminal ==
    [][Len(sessions') = Len(sessions) =>
         \A i \in SessionIds :
            sessions'[i].session_status # sessions[i].session_status =>
               sessions'[i].session_status \in Reasons]_vars

\* C9: a receipt that arrived while the user had an unexpired waiting session,
\* which was extended at detection, is still waiting and is the user's only one,
\* is scored against that session's prediction once its items are saved (at
\* any instant but the session's very expiry).
C9_ScoredDespiteSlowOcr ==
    \A h \in inflight :
       (/\ h.found_unexpired
        /\ h.result \in {"saved_no_session", "feedback"}
        /\ sessions[h.active_session].session_status = "waiting"
        /\ h.active_session \in Extended(sessions)
        /\ sessions[h.active_session].expires_at # now
        /\ \A j \in SessionIds :
              sessions[j].user_phone = h.phone_number => j = h.active_session)
       => \E k \in 1..Len(feedback) :
             /\ feedback[k].receipt_id = h.receipt_id
             /\ feedback[k].prediction_id = sessions[h.active_session].prediction_id

\* C10: once process_incoming_message has returned for a text or image
\* message, its handler has run exactly once and its message_id is in the
\* cache, so that the next delivery of it is recognised as a duplicate; a
\* delivery recognised as a duplicate returns False.
C10_DeliveredOnce ==
    \A m \in Inbound :
       (ret.op = "process" /\ ret.user = m.id /\ m.type \in {"text", "image"}) =>
          /\ IsMessageProcessed(m.id)
          /\ dispatched[m.id] = 1
          /\ ret.grace => ret.result = 0

\* C11: a cleanup pass drops exactly the entries whose timestamp is more than
\* 24 hours before now; every entry at most 24 hours old stays, unchanged.
C11_CleanupExact ==
    [][ret'.op = "cleanup" =>
         \A id \in DOMAIN cache :
            LET olderThanDay ==
                   \/ now[1] - cache[id][1] > 86400
                   \/ now[1] - cache[id][1] = 86400 /\ now[2] > cache[id][2]
            IN /\ olderThanDay => id \notin DOMAIN cache'
               /\ ~olderThanDay => (id \in DOMAIN cache' /\ cache'[id] = cache[id])]_vars

\* a pass that dropped an entry and kept one that is exactly 24 hours old
C11_Witness ==
    /\ ret.op = "cleanup" /\ ret.result > 0
    /\ \E id \in DOMAIN cache : TAdd(cache[id], <<86400, 0>>) = now

\* a provider response that parses and validates
C12_Good(r) ==
    r.kind = "parsed" /\ Truthy(r.object) /\ ValidatePrediction(r.object) = "valid"

\* C12: the providers are called in the order gemini, mistral, deepseek,
\* openai, each at most once and only after every earlier response failed to
\* parse and validate; a response that parses and validates is the last call,
\* and the prediction returned is that response tagged with its provider.
C12_ChainOrder ==
    /\ Len(chain.calls) <= 4
    /\ \A i \in 1..Len(chain.calls) :
          /\ chain.calls[i].provider = <<"gemini", "mistral", "deepseek", "openai">>[i]
          /\ \A j \in 1..(i - 1) : ~C12_Good(chain.calls[j].response)
          /\ C12_Good(chain.calls[i].response) =>
                /\ chain.pc \in {"returned", "done"}
                /\ chain.returned = chain.calls[i].response.object
                /\ chain.llm_used = chain.calls[i].provider
    /\ chain.returned # NoObject =>
          /\ Len(chain.calls) > 0
          /\ C12_Good(chain.calls[Len(chain.calls)].response)

\* gemini and mistral failed and the prediction came from deepseek
C12_Witness ==
    /\ chain.pc = "done" /\ chain.llm_used = "deepseek"
    /\ Len(chain.calls) = 3 /\ chain.returned # NoObject

\* C13: a generation that ends without a prediction has tried all four
\* providers, whatever made each of them fail.
C13_AllTriedBeforeGivingUp ==
    (chain.pc \in {"returned", "done"} /\ chain.returned = NoObject /\ chain.calls # <<>>)
       => Len(chain.calls) = 4

\* C14: when no provider's response parses and validates, the generation
\* returns no prediction, and handle_grocery_request then adds no prediction
\* row and no feedback session and sends the try-again message.
C14_NoPredictionNoRows ==
    [][(chain.pc = "returned" /\ chain'.pc = "done"
          /\ \A i \in 1..Len(chain.calls) : ~C12_Good(chain.calls[i].response))
       => /\ chain.returned = NoObject
          /\ predictions' = predictions
          /\ sessions' = sessions
          /\ chain'.reply = "try_again"]_vars

\* all four providers were tried, none validated, the user was told to retry
C14_Witness ==
    /\ chain.pc = "done" /\ chain.reply = "try_again"
    /\ Len(chain.calls) = 4 /\ chain.returned = NoObject

\* C15: the prompt_metrics rows with context_limit_hit = false are as many as
\* the providers attempted.
C15_MetricPerAttempt ==
    Cardinality({k \in 1..Len(chain.metrics) : ~chain.metrics[k].context_limit_hit})
       = Len(chain.calls)

\* C16: an attempt whose failure matches the context-limit heuristic has
\* exactly one prompt_metrics row with context_limit_hit = true, any other
\* attempt has none.
C16_OneFlaggedRow ==
    \A i \in 1..Len(chain.calls) :
       Cardinality({k \in 1..Len(chain.metrics) :
                       /\ chain.metrics[k].context_limit_hit
                       /\ chain.metrics[k].llm_used = chain.calls[i].provider})
          = IF chain.calls[i].response.kind \in {"limit_text", "limit_status"} THEN 1 ELSE 0

\* a string spelling a calendar date that exists, with or without a time
C17_IsoDate(v) ==
    /\ v.type = "string"
    /\ Len(v.text) >= 3
    /\ v.text[2] >= 1 /\ v.text[2] <= 12
    /\ v.text[3] >= 1 /\ v.text[3] <= 31
    /\ v.text[2] \in {4, 6, 9, 11} => v.text[3] <= 30
    /\ v.text[2] = 2 => v.text[3] <= 29
    /\ (v.text[2] = 2 /\ v.text[3] = 29) =>
          (v.text[1] % 400 = 0 \/ (v.text[1] % 4 = 0 /\ v.text[1] % 100 # 0))

\* C17: a prediction returned by generate_grocery_prediction is the parsed
\* response of the provider called last, has predicted_items as a non-empty
\* list and both range dates as strings that parse as ISO-8601 dates.
C17_ReturnedIsValid ==
    chain.returned # NoObject =>
       /\ chain.returned = chain.calls[Len(chain.calls)].response.object
       /\ chain.returned.type = "object"
       /\ {"predicted_items", "predicted_date_range_start", "predicted_date_range_end"}
             \subseteq DOMAIN chain.returned.fields
       /\ chain.returned.fields["predicted_items"].type = "list"
       /\ Len(chain.returned.fields["predicted_items"].elems) > 0
       /\ C17_IsoDate(chain.returned.fields["predicted_date_range_start"])
       /\ C17_IsoDate(chain.returned.fields["predicted_date_range_end"])

\* a prediction returned by openai whose range starts on 29 February 2024
C17_Witness ==
    /\ chain.returned # NoObject /\ chain.llm_used = "openai"
    /\ chain.returned.fields["predicted_date_range_start"] = JStr(<<2024, 2, 29>>)

\* the positions of the predicted items whose normalized name is an actual one
C18_MatchedAt ==
    {i \in 1..Len(acc.predicted) :
        \E j \in 1..Len(acc.actual) :
           Normalize(acc.predicted[i]) = Normalize(acc.actual[j])}

\* C18: match_percentage is 100 * |matched| / |predicted| to two decimals
\* (here in hundredths: within half a hundredth of the exact value), and 0
\* when nothing was predicted.
C18_MatchPercentage ==
    acc.called =>
       LET n == Len(acc.predicted)
           k == Cardinality(C18_MatchedAt)
           h == acc.result.match_percentage
       IN /\ n = 0 => h = 0
          /\ n > 0 => /\ 2 * (h * n - 10000 * k) <= n
                      /\ 2 * (10000 * k - h * n) <= n

\* 1 of 3 predicted items matched, through case and whitespace: 33.33
C18_Witness ==
    /\ acc.called
    /\ Len(acc.predicted) = 3 /\ acc.actual = << <<" ", "M", "I", "L", "K", " ">> >>
    /\ acc.predicted[1] = Milk
    /\ acc.result.match_percentage = 3333

\* the items of s at the positions I, in the order of s
C19_Pick(s, I) ==
    [k \in 1..Cardinality(I) |->
        s[CHOOSE i \in I : Cardinality({j \in I : j <= i}) = k]]

\* C19: matched and missing are the predicted items whose normalized name is,
\* and is not, an actual one, each in predicted order; extra is the actual
\* items whose normalized name is no predicted one, in actual order, as given.
C19_Partition ==
    acc.called =>
       /\ acc.result.matched_items = C19_Pick(acc.predicted, C18_MatchedAt)
       /\ acc.result.missing_items =
             C19_Pick(acc.predicted, (1..Len(acc.predicted)) \ C18_MatchedAt)
       /\ acc.result.extra_items =
             C19_Pick(acc.actual,
                      {j \in 1..Len(acc.actual) :
                          \A i \in 1..Len(acc.predicted) :
                             Normalize(acc.actual[j]) # Normalize(acc.predicted[i])})

\* predicted [Milk, Bread, Eggs], actual [milk, Cheese]
C19_Witness ==
    /\ acc.called
    /\ acc.predicted = <<Milk, <<"B", "r", "e", "a", "d">>, <<"E", "g", "g", "s">> >>
    /\ acc.actual = << <<"m", "i", "l", "k">>, <<"C", "h", "e", "e", "s", "e">> >>
    /\ acc.result.matched_items = <<Milk>>
    /\ acc.result.missing_items = << <<"B", "r", "e", "a", "d">>, <<"E", "g", "g", "s">> >>
    /\ acc.result.extra_items = << <<"C", "h", "e", "e", "s", "e">> >>

\* C20: no feedback row is analysed in two learning updates: a further update
\* is made only from rows added since the one before.
C20_NoRowAnalysedTwice ==
    \A i, j \in 1..Len(learning) :
       i # j => learning[i].analysed \cap learning[j].analysed = {}

\* the feedback rows update u was computed from
C21_Batch(u) == {feedback[i] : i \in u.analysed}

\* the occurrences of item in the missing (extra) lists of the rows of u
C21_Frequency(u, field, item) ==
    LET ids == u.analysed
        Count(i) == Cardinality({k \in 1..Len(feedback[i][field]) :
                                    feedback[i][field][k] = item})
        RECURSIVE Total(_)
        Total(I) == IF I = {} THEN 0
                    ELSE LET i == CHOOSE x \in I : TRUE IN Count(i) + Total(I \ {i})
    IN Total(ids)

\* top is the min(5, number of items) most frequent items of field in u's rows
C21_TopFive(u, field, top) ==
    LET items == UNION {{feedback[i][field][k] : k \in 1..Len(feedback[i][field])} :
                           i \in u.analysed}
        listed == {top[k].item : k \in 1..Len(top)}
    IN /\ listed \subseteq items
       /\ Cardinality(listed) = Len(top)
       /\ Len(top) = IF Cardinality(items) < 5 THEN Cardinality(items) ELSE 5
       /\ \A k \in 1..Len(top) : top[k].frequency = C21_Frequency(u, field, top[k].item)
       /\ \A a \in listed, b \in items \ listed :
             C21_Frequency(u, field, a) >= C21_Frequency(u, field, b)

\* C21: a learning update records the mean match_percentage of all the rows
\* of its batch (to two decimals) and, as top missing and top extra items, the
\* five most frequent items of the batch with their occurrences.
C21_UpdateSummary ==
    \A n \in 1..Len(learning) :
       LET u == learning[n]
           RECURSIVE Total(_)
           Total(I) == IF I = {} THEN 0
                       ELSE LET i == CHOOSE x \in I : TRUE
                            IN feedback[i].match_percentage + Total(I \ {i})
           size == Cardinality(u.analysed)
           avg == u.update_summary.average_accuracy
       IN /\ 2 * (avg * size - Total(u.analysed)) <= size
          /\ 2 * (Total(u.analysed) - avg * size) <= size
          /\ C21_TopFive(u, "missing_items", u.update_summary.top_missing_items)
          /\ C21_TopFive(u, "extra_items", u.update_summary.top_extra_items)

\* the updates of the table that lie within the trailing 60 days
C22_InWindow == {i \in 1..Len(learning) : TLe(TSub(now, Days(60)), learning[i].created_at)}

\* the items of the missing (extra) list of update i
C22_Items(i, field) ==
    {learning[i].update_summary[field][k].item :
        k \in 1..Len(learning[i].update_summary[field])}

\* in how many of the updates within the window item a is listed
C22_Mentions(a, field) == Cardinality({i \in C22_InWindow : a \in C22_Items(i, field)})

\* the frequency of a summed over the updates within the window
C22_Summed(a, field) ==
    LET RECURSIVE Total(_)
        Total(I) ==
           IF I = {} THEN 0
           ELSE LET i == CHOOSE x \in I : TRUE
                    top == learning[i].update_summary[field]
                IN SumSeq([k \in 1..Len(top) |->
                              IF top[k].item = a THEN top[k].frequency ELSE 0])
                   + Total(I \ {i})
    IN Total(C22_InWindow)

C22_Listed(field) ==
    {ret.result.summary[field][k] : k \in 1..Len(ret.result.summary[field])}

C22_AllItems(field) == UNION {C22_Items(i, field) : i \in C22_InWindow}

\* C22 as stated: an item listed by exactly one update of the window is left
\* out of the summary, an item listed by two or more is in it.
C22_TwoOrMore ==
    (ret.op = "summary" /\ ret.result.read_ok) =>
       \A field \in {"top_missing_items", "top_extra_items"} :
          \A a \in C22_AllItems(field) :
             /\ C22_Mentions(a, field) = 1 => a \notin C22_Listed(field)
             /\ C22_Mentions(a, field) >= 2 => a \in C22_Listed(field)

\* C22: an item listed by exactly one update of the window is left out of the
\* summary; an item listed by two or more is in it unless five items listed
\* by two or more, each with a summed frequency at least as high, are.
C22_TwoOrMoreTopFive ==
    (ret.op = "summary" /\ ret.result.read_ok) =>
       \A field \in {"top_missing_items", "top_extra_items"} :
          \A a \in C22_AllItems(field) :
             /\ C22_Mentions(a, field) = 1 => a \notin C22_Listed(field)
             /\ C22_Mentions(a, field) >= 2 =>
                   \/ a \in C22_Listed(field)
                   \/ /\ Cardinality(C22_Listed(field)) = 5
                      /\ \A b \in C22_Listed(field) :
                            /\ C22_Mentions(b, field) >= 2
                            /\ C22_Summed(b, field) >= C22_Summed(a, field)

\* six items are listed missing by two updates each and the summary names
\* five of them; Cheese is listed extra by one update only and left out, Salt
\* by three and named
C22_Witness ==
    /\ ret.op = "summary" /\ ret.result.read_ok
    /\ Cardinality({a \in C22_AllItems("top_missing_items") :
                       C22_Mentions(a, "top_missing_items") >= 2}) = 6
    /\ Len(ret.result.summary.top_missing_items) = 5
    /\ C22_Mentions(Cheese, "top_extra_items") = 1
    /\ Cheese \notin C22_Listed("top_extra_items")
    /\ C22_Mentions(Salt, "top_extra_items") = 3
    /\ Salt \in C22_Listed("top_extra_items")

\* the non-zero average accuracies of the updates within the window, the
\* newest first
C23_Accuracies ==
    LET ids == {i \in C22_InWindow : learning[i].update_summary.average_accuracy # 0}
    IN [k \in 1..Cardinality(ids) |->
          learning[CHOOSE i \in ids : Cardinality({j \in ids : j > i}) = k - 1]
             .update_summary.average_accuracy]

\* C23: the label is 'improving' only when the mean accuracy of the later
\* half of the updates exceeds that of the earlier half by more than 2 points,
\* 'declining' only when it is lower by more than 2 points, and 'stable' when
\* the means differ by at most 2 points.
C23_TrendLabel ==
    (ret.op = "summary" /\ ret.result.read_ok /\ Len(C23_Accuracies) >= 2) =>
       LET n == Len(C23_Accuracies)
           later == n \div 2
           earlier == n - later
           later_sum == SumSeq(SubSeq(C23_Accuracies, 1, later))
           earlier_sum == SumSeq(SubSeq(C23_Accuracies, later + 1, n))
           up == later_sum * earlier - earlier_sum * later
           label == ret.result.summary.accuracy_trend
       IN /\ label = "improving" => up > 200 * later * earlier
          /\ label = "declining" => up < 0 - 200 * later * earlier
          /\ (up <= 200 * later * earlier /\ up >= 0 - 200 * later * earlier)
                => label = "stable"

\* C24: with no update within the window, or when the read fails, the summary
\* is the no-learning result; with an update within the window and a read
\* that succeeds, has_learning is true.
C24_NoLearningResult ==
    ret.op = "summary" =>
       LET inside == {i \in 1..Len(learning) :
                         TLe(TSub(now, <<60 * 86400, 0>>), learning[i].created_at)}
       IN IF inside = {} \/ ~ret.result.read_ok
          THEN ret.result.summary =
                  [has_learning |-> FALSE, top_missing_items |-> <<>>,
                   top_extra_items |-> <<>>, average_accuracy |-> 0,
                   accuracy_trend |-> "stable", update_count |-> 0]
          ELSE ret.result.summary.has_learning

\* the table holds updates, all from before the window, and the read succeeds
C24_Witness ==
    /\ ret.op = "summary" /\ ret.result.read_ok
    /\ Len(learning) >= 2
    /\ \A i \in 1..Len(learning) : TLt(learning[i].created_at, TSub(now, Days(60)))
    /\ ~ret.result.summary.has_learning

\* the only update within the window was made exactly 60 days ago
C24_WitnessAtCutoff ==
    /\ ret.op = "summary" /\ ret.result.read_ok
    /\ \E i \in 1..Len(learning) : learning[i].created_at = TSub(now, Days(60))
    /\ ret.result.summary.has_learning
    /\ ret.result.summary.update_count = 1

\* the dates on which item n was bought, by the fetched rows
C25_Dates(n) ==
    {purchases[i].purchase_date :
        i \in {j \in 1..Len(purchases) :
                  /\ Strip(purchases[j].item_name_normalized) = n
                  /\ purchases[j].purchase_date # << >>}}

C25_Latest(n) == CHOOSE d \in C25_Dates(n) : \A e \in C25_Dates(n) : ~DateBefore(d, e)

C25_Earliest(n) == CHOOSE d \in C25_Dates(n) : \A e \in C25_Dates(n) : ~DateBefore(e, d)

\* frequency and last date of every pattern, and the absence of the average
C25_CountAndLast(n) ==
    /\ C25_Dates(n) # {}
    /\ ret.result[n].frequency = Cardinality(C25_Dates(n))
    /\ ret.result[n].last_purchase_date = C25_Latest(n)
    /\ ret.result[n].avg_days_between = << >> <=> Cardinality(C25_Dates(n)) < 2

\* C25 as stated: the average is the mean of the gaps between consecutive
\* dates, that is (latest - earliest) / (number of dates - 1), in tenths.
C25_ExactMean ==
    ret.op = "patterns" =>
       \A n \in DOMAIN ret.result :
          /\ C25_CountAndLast(n)
          /\ Cardinality(C25_Dates(n)) >= 2 =>
                ret.result[n].avg_days_between[1] * (Cardinality(C25_Dates(n)) - 1)
                   = 10 * (ToOrdinal(C25_Latest(n)) - ToOrdinal(C25_Earliest(n)))

\* C25: frequency is the number of distinct dates, last_purchase_date the
\* latest, avg_days_between is absent exactly with fewer than two distinct
\* dates and otherwise the mean of the gaps rounded to one decimal.
C25_RoundedMean ==
    ret.op = "patterns" =>
       \A n \in DOMAIN ret.result :
          /\ C25_CountAndLast(n)
          /\ Cardinality(C25_Dates(n)) >= 2 =>
                LET gaps == Cardinality(C25_Dates(n)) - 1
                    span == ToOrdinal(C25_Latest(n)) - ToOrdinal(C25_Earliest(n))
                    t == ret.result[n].avg_days_between[1]
                IN /\ 2 * (t * gaps - 10 * span) <= gaps
                   /\ 2 * (10 * span - t * gaps) <= gaps

\* Milk bought on four dates, 20 days from the first to the last: the mean
\* gap 6.67 is recorded as 6.7
C25_Witness ==
    /\ ret.op = "patterns"
    /\ Len(purchases) = MaxItems
    /\ Milk \in DOMAIN ret.result
    /\ ret.result[Milk].frequency = 4
    /\ ret.result[Milk].last_purchase_date = <<2024, 1, 21>>
    /\ ret.result[Milk].avg_days_between = <<67>>

\* C26: an item of the prompt whose pattern has an average is marked 'likely
\* needs soon' exactly when the days since its last purchase are at least 0.8
\* times the average (the average is kept in tenths of a day).
C26_LikelyNeedsSoon ==
    ret.op = "prompt" =>
       \A k \in 1..Len(ret.result.purchase_history) :
          LET e == ret.result.purchase_history[k]
          IN IF e.avg_days = << >> THEN ~e.likely_needs_soon
             ELSE e.likely_needs_soon <=> 100 * e.days_since >= 8 * e.avg_days[1]

C26_MilkWeekly ==
    /\ ret.op = "prompt"
    /\ Len(ret.result.purchase_history) = 1
    /\ ret.result.purchase_history[1].item_name = Milk
    /\ ret.result.purchase_history[1].frequency = 3
    /\ ret.result.purchase_history[1].last_date = <<2024, 1, 15>>
    /\ ret.result.purchase_history[1].avg_days = <<70>>

\* Milk bought on 2024-01-01, -08 and -15 is marked on 2024-01-21
C26_Witness ==
    /\ C26_MilkWeekly
    /\ DayOf(now) = 20
    /\ ret.result.purchase_history[1].days_since = 6
    /\ ret.result.purchase_history[1].likely_needs_soon

\* and not marked on 2024-01-20
C26_WitnessDayBefore ==
    /\ C26_MilkWeekly
    /\ DayOf(now) = 19
    /\ ret.result.purchase_history[1].days_since = 5
    /\ ~ret.result.purchase_history[1].likely_needs_soon

C27_WitnessBlock ==
    /\ ret.op = "prompt" /\ ret.user = "ok"
    /\ ret.result.insights.present
    /\ ret.result.insights.accuracy_line = <<8000, "stable">>

\* C28: when a prediction was generated, the shopping list is sent whether or
\* not the prediction row could be saved; a failed save adds no feedback
\* session; a session is added only together with the saved prediction, and
\* it carries that prediction's id and the requesting user. Every session
\* row therefore refers to a saved prediction of its own user.
C28_SessionOnlyForSaved ==
    [][(chain.pc = "returned" /\ chain'.pc = "done" /\ chain.returned # NoObject)
       => /\ chain'.reply = "shopping_list"
          /\ predictions' = predictions => sessions' = sessions
          /\ sessions' # sessions =>
                /\ predictions' = Append(predictions, [user_phone |-> chain.user])
                /\ Len(sessions') = Len(sessions) + 1
                /\ SubSeq(sessions', 1, Len(sessions)) = sessions
                /\ sessions'[Len(sessions')].prediction_id = Len(predictions')
                /\ sessions'[Len(sessions')].user_phone = chain.user
          /\ \A i \in 1..Len(sessions') :
                /\ sessions'[i].prediction_id \in 1..Len(predictions')
                /\ predictions'[sessions'[i].prediction_id].user_phone
                      = sessions'[i].user_phone]_vars

\* a second prediction was generated and sent, its save failed: the only
\* session is the one of the first prediction
C28_Witness ==
    /\ chain.pc = "done" /\ chain.reply = "shopping_list"
    /\ chain.returned # NoObject
    /\ Len(predictions) = 1 /\ Len(sessions) = 1
    /\ Len(chain.calls) = 2
    /\ sessions[1].prediction_id = 1 /\ sessions[1].user_phone = chain.user

\* the session the last handler run found, its close or extension rejected
C29_Rejected ==
    /\ ret.op \in {"no", "no_more", "image"}
    /\ ~ret.grace
    /\ ret.result.session # NoSession

C29_WitnessImage ==
    /\ C29_Rejected
    /\ ret.op = "image" /\ ret.result.reply = "received"
    /\ sessions[ret.result.session].expires_at
          = ExpiresAtFor(sessions[ret.result.session].created_at)

C30_AlwaysOk ==
    response # Unanswered => response.status = 200

\* an image event: the dispatch fails inside process_incoming_message, which
\* returns False, and the POST is answered 200 'ok'
C30_Witness ==
    /\ ret.op = "process" /\ ret.user = "m5" /\ ret.result = 0
    /\ response = [status |-> 200, body |-> "ok"]

\* the handler's try block raised: 200 with an error body
C30_WitnessError ==
    response = [status |-> 200, body |-> "error"]

\* C31: a 'no' from a user with an active waiting session cancels that session
\* and leaves the user without an active session; a 'no' from a user with no
\* active session changes no session.  (A store that rejects the update
\* leaves the rows as they were; that case is let through here.)
C31_NoCancelsActiveOnly ==
    [][dispatched'["m3"] # dispatched["m3"] =>
          IF ActiveRows(sessions, "u1", now) # {}
          THEN \/ sessions' = sessions
               \/ /\ \E r \in LatestCreated(sessions, ActiveRows(sessions, "u1", now)) :
                        sessions' = [sessions EXCEPT ![r].session_status = "cancelled"]
                  /\ ActiveRows(sessions', "u1", now) = {}
          ELSE sessions' = sessions]_vars

\* a session cancelled by a 'no' that came after its expiry
C31_CancelledAfterExpiry ==
    \E i \in 1..Len(sessions) :
       /\ sessions[i].session_status = "cancelled"
       /\ "m3" \in DOMAIN cache
       /\ TLt(sessions[i].expires_at, cache["m3"])

\* C34: a run of the reminder sweep sends a reminder for every waiting
\* session created more than 5 hours before it for which no reminder was
\* sent and no receipt was scored.
C34_SweepReminds ==
    [][now' # now =>
          \A i \in 1..Len(sessions) :
             (/\ sessions[i].session_status = "waiting"
              /\ TLt(TAdd(sessions[i].created_at, Hours(5)), now')
              /\ sessions[i].reminder_sent_at = NoTime
              /\ \A k \in 1..Len(feedback) :
                    feedback[k].prediction_id # sessions[i].prediction_id)
             => reminded'[i] = reminded[i] + 1]_vars

\* C38: no session is sent more than one reminder.
C38_AtMostOneReminder ==
    \A i \in DOMAIN reminded : reminded[i] <= 1


\* C32: a 'done' or a 'no more' reply that is handled while the sender has an
\* active session closes that session as 'receipt_submitted' (or leaves the
\* table alone when the store rejects the write); it never cancels it.
C32_DoneClosesSubmitted ==
    [][\A id \in {"m4", "m7"} :
          (dispatched'[id] # dispatched[id] /\ ActiveRows(sessions, "u1", now) # {})
          => \/ sessions' = sessions
             \/ \E r \in ActiveRows(sessions, "u1", now) :
                   sessions' = [sessions EXCEPT ![r].session_status = "receipt_submitted"]]_vars


\* C33: no two Feedback rows belong to the same receipt image of a user,
\* however the deliveries of that image are interleaved.
C33_OneFeedbackPerReceipt ==
    \A i, j \in 1..Len(feedback) :
       i # j => LET a == receipts[feedback[i].receipt_id]
                    b == receipts[feedback[j].receipt_id]
                IN ~(a.user_phone = b.user_phone /\ a.image_url = b.image_url)

\* C35: a delivery of the image message m5 that is not recognised as a
\* duplicate enters the receipt-image handler and returns True.
C35_ImageHandled ==
    (ret.op = "process" /\ ret.user = "m5" /\ ~ret.grace) =>
       /\ dispatched["m5"] >= 1
       /\ ret.result = 1


\* C36: a session whose status is receipt_submitted, cancelled, expired or
\* no_response keeps that status in every step, however the handlers of the
\* replies are interleaved.
C36_TerminalAbsorbing ==
    [][\A i \in 1..Len(sessions) :
          sessions[i].session_status \in Reasons
          => sessions'[i].session_status = sessions[i].session_status]_vars

\* C37: of the deliveries of one text message_id handled by concurrent
\* request threads, at most one passes the idempotency check and enters the
\* message handler.
C37_OneDeliveryHandled ==
    \A m \in ThreadMessages :
       /\ dispatched[m.id] <= 1
       /\ Cardinality({h \in inflight : h.message.id = m.id /\ h.result # "duplicate"}) <= 1


\* C39: a session in status 'receipt_submitted' has a Feedback row recorded
\* for its prediction.
C39_SubmittedHasFeedback ==
    \A i \in 1..Len(sessions) :
       sessions[i].session_status = "receipt_submitted"
       => \E k \in 1..Len(feedback) : feedback[k].prediction_id = sessions[i].prediction_id


\* C40: the learning-insights block of a prompt built for a user is the
\* block of the run in which the feedback on other users' predictions, and
\* the learning updates made from it, are absent.
C40_OwnFeedback(u) ==
    {k \in 1..Len(feedback) : predictions[feedback[k].prediction_id].user_phone = u}

C40_OwnLearning(u) ==
    LET Own(row) == row.analysed \subseteq C40_OwnFeedback(u)
    IN SelectSeq(learning, Own)

C40_OwnInsightsOnly ==
    (ret.op = "prompt_for" /\ ret.grace) =>
       ret.result.insights =
          FormatDataForLlm(purchases, AggregatePurchasePatterns(purchases), now,
                           C40_OwnLearning(ret.user), "ok").insights

====
